---------------------------- MODULE Spec2Model ----------------------------
(***************************************************************************)
(* Model of the deterministic core of jobsnapai: text cleaning             *)
(* (core/cleaning.py), skill extraction with evidence and match scoring    *)
(* (core/scoring.py) and the normalized matching of app.py.                *)
(*                                                                         *)
(* A Python str is modelled as a sequence of Unicode code points, a list   *)
(* as a sequence, a set as a set, a dict with fixed keys as a record and   *)
(* an insertion-ordered dict as the sequence of its items.                 *)
(***************************************************************************)
EXTENDS Integers, Sequences, FiniteSets, TLC

(***************************************************************************)
(* Characters named in the source.                                         *)
(***************************************************************************)
TAB == 9
LF == 10
CR == 13
SP == 32
HYPHEN == 45
PIPE == 124
ENDASH == 8211
\* the bullet glyphs of clean_text, in the order of its tuple
Bullets == <<8226, 9679, 9642>>

\* The characters str.strip() removes and str.split() splits on (str.isspace).
PyWhitespace ==
    {9, 10, 11, 12, 13, 28, 29, 30, 31, 32, 133, 160, 5760, 8232, 8233, 8239,
     8287, 12288} \cup (8192 .. 8202)

\* Python's None, where a str is expected (no code point is negative).
None == << -1 >>

Range(s) == {s[i] : i \in 1 .. Len(s)}

(***************************************************************************)
(* str methods and the re calls the code uses.                             *)
(***************************************************************************)
RECURSIVE Replace(_, _, _)
\* t.replace(old, new): left to right, non-overlapping (old is non-empty)
Replace(t, old, new) ==
    IF Len(t) < Len(old) THEN t
    ELSE IF SubSeq(t, 1, Len(old)) = old
         THEN new \o Replace(SubSeq(t, Len(old) + 1, Len(t)), old, new)
         ELSE <<Head(t)>> \o Replace(Tail(t), old, new)

\* t.split(c) for a one-character separator: always at least one piece
Split(t, c) ==
    LET seps == SelectSeq([i \in 1 .. Len(t) |-> i], LAMBDA i : t[i] = c)
        from(k) == IF k = 1 THEN 1 ELSE seps[k - 1] + 1
        to(k) == IF k = Len(seps) + 1 THEN Len(t) ELSE seps[k] - 1
    IN  [k \in 1 .. Len(seps) + 1 |-> SubSeq(t, from(k), to(k))]

RECURSIVE Join(_, _)
\* sep.join(parts)
Join(parts, sep) ==
    IF parts = <<>> THEN <<>>
    ELSE IF Len(parts) = 1 THEN Head(parts)
    ELSE Head(parts) \o sep \o Join(Tail(parts), sep)

RECURSIVE LStrip(_)
LStrip(s) ==
    IF s # <<>> /\ Head(s) \in PyWhitespace THEN LStrip(Tail(s)) ELSE s

RECURSIVE RStrip(_)
RStrip(s) ==
    IF s # <<>> /\ s[Len(s)] \in PyWhitespace
    THEN RStrip(SubSeq(s, 1, Len(s) - 1)) ELSE s

\* s.strip()
Strip(s) == RStrip(LStrip(s))

RECURSIVE SkipIn(_, _)
\* s without its longest prefix of characters of cs
SkipIn(s, cs) == IF s # <<>> /\ Head(s) \in cs THEN SkipIn(Tail(s), cs) ELSE s

\* re.sub("[cs]+", c, s) for a character c: every maximal run of characters
\* of cs becomes one c (the first character of the run is replaced, the
\* others are dropped)
SubRuns(s, cs, c) ==
    LET kept == SelectSeq([i \in 1 .. Len(s) |-> i],
                          LAMBDA i : s[i] \notin cs \/ i = 1 \/ s[i - 1] \notin cs)
    IN  [k \in 1 .. Len(kept) |-> IF s[kept[k]] \in cs THEN c ELSE s[kept[k]]]

\* re.sub(r"[ \t]+", " ", s)
SubSpTab(s) == SubRuns(s, {SP, TAB}, SP)

RECURSIVE SubNewlines3(_)
\* re.sub(r"\n{3,}", "\n\n", s): a maximal run of 3 or more LF becomes 2
SubNewlines3(s) ==
    IF s = <<>> THEN <<>>
    ELSE IF Head(s) = LF
         THEN LET rest == SkipIn(s, {LF})
                  n == Len(s) - Len(rest)
              IN  (IF n >= 3 THEN <<LF, LF>> ELSE SubSeq(s, 1, n))
                  \o SubNewlines3(rest)
         ELSE <<Head(s)>> \o SubNewlines3(Tail(s))

(***************************************************************************)
(* core/cleaning.py                                                        *)
(***************************************************************************)
\* the loop over the bullet glyphs: each glyph b becomes "\n" + b + " "
BulletsToLines(t) ==
    LET b1 == Replace(t, <<Bullets[1]>>, <<LF, Bullets[1], SP>>)
        b2 == Replace(b1, <<Bullets[2]>>, <<LF, Bullets[2], SP>>)
    IN  Replace(b2, <<Bullets[3]>>, <<LF, Bullets[3], SP>>)

\* mutant: the line is stripped but its runs of spaces and tabs are kept
CleanLine_NoCollapse(line) == Strip(line)

\* one pass of the loop body: strip, then collapse spaces and tabs
CleanLine(line) == SubSpTab(Strip(line))

\* mutant: the "if line:" test is missing, so blank lines are kept
CleanedLines_KeepBlank(t) ==
    [i \in 1 .. Len(Split(t, LF)) |-> CleanLine(Split(t, LF)[i])]

\* cleaned_lines: the cleaned lines that are not empty, in order
CleanedLines(t) == SelectSeq([i \in 1 .. Len(Split(t, LF)) |-> CleanLine(Split(t, LF)[i])],
                             LAMBDA l : l # <<>>)

\* mutant: a lone CR is not turned into a line break
clean_text_KeepCR(text) ==
    IF text = None \/ text = <<>> THEN <<>>
    ELSE LET t1 == Replace(text, <<CR, LF>>, <<LF>>)
             t2 == BulletsToLines(t1)
             t3 == Replace(t2, <<ENDASH>>, <<HYPHEN>>)
             out0 == Join(CleanedLines(t3), <<LF>>)
         IN  Strip(SubNewlines3(out0))

clean_text(text) ==
    IF text = None \/ text = <<>> THEN <<>>
    ELSE LET t1 == Replace(Replace(text, <<CR, LF>>, <<LF>>), <<CR>>, <<LF>>)
             t2 == BulletsToLines(t1)
             t3 == Replace(t2, <<ENDASH>>, <<HYPHEN>>)
             out0 == Join(CleanedLines(t3), <<LF>>)
         IN  Strip(SubNewlines3(out0))

(***************************************************************************)
(* Sorting and rounding as Python does them.                               *)
(***************************************************************************)
RECURSIVE StrLess(_, _)
\* a < b for two str: by code point, a proper prefix first
StrLess(a, b) ==
    IF b = <<>> THEN FALSE
    ELSE IF a = <<>> THEN TRUE
    ELSE IF Head(a) # Head(b) THEN Head(a) < Head(b)
    ELSE StrLess(Tail(a), Tail(b))

RECURSIVE Sorted(_)
\* sorted(S) for a set of str
Sorted(S) ==
    IF S = {} THEN <<>>
    ELSE LET least == CHOOSE x \in S : \A y \in S \ {x} : StrLess(x, y)
         IN  <<least>> \o Sorted(S \ {least})

\* round(n / d) for integers n >= 0 and d > 0: to the nearest integer, a tie
\* to the even one
RoundHalfEven(n, d) ==
    LET q == n \div d
        r == n % d
    IN  IF 2 * r < d THEN q
        ELSE IF 2 * r > d THEN q + 1
        ELSE IF q % 2 = 0 THEN q ELSE q + 1

Max(a, b) == IF a >= b THEN a ELSE b
Min(a, b) == IF a <= b THEN a ELSE b

(***************************************************************************)
(* core/scoring.py: compute_match.  match_percentage is a float with two   *)
(* decimals; the model holds it in hundredths (66.67 is 6667).             *)
(***************************************************************************)
\* mutant: the percentage is cut to two decimals instead of rounded
compute_match_Truncated(resume_skills, job_skills) ==
    LET matched == Sorted(resume_skills \cap job_skills)
        missing == Sorted(job_skills \ resume_skills)
        job_count == Cardinality(job_skills)
    IN  [match_percentage |->
             IF job_count # 0 THEN (Len(matched) * 10000) \div job_count ELSE 0,
         present_skills |-> matched,
         missing_skills |-> missing,
         job_skill_count |-> job_count,
         matched_count |-> Len(matched)]

\* mutant: the percentage is taken over the resume's skills, not the matched ones
compute_match_ResumeCount(resume_skills, job_skills) ==
    LET matched == Sorted(resume_skills \cap job_skills)
        missing == Sorted(job_skills \ resume_skills)
        job_count == Cardinality(job_skills)
    IN  [match_percentage |->
             IF job_count # 0
             THEN RoundHalfEven(Cardinality(resume_skills) * 10000, job_count) ELSE 0,
         present_skills |-> matched,
         missing_skills |-> missing,
         job_skill_count |-> job_count,
         matched_count |-> Len(matched)]

\* mutant: every job skill is reported missing, the matched ones too
compute_match_MissingAll(resume_skills, job_skills) ==
    LET matched == Sorted(resume_skills \cap job_skills)
        missing == Sorted(job_skills)
        job_count == Cardinality(job_skills)
    IN  [match_percentage |->
             IF job_count # 0 THEN RoundHalfEven(Len(matched) * 10000, job_count) ELSE 0,
         present_skills |-> matched,
         missing_skills |-> missing,
         job_skill_count |-> job_count,
         matched_count |-> Len(matched)]

compute_match(resume_skills, job_skills) ==
    LET matched == Sorted(resume_skills \cap job_skills)
        missing == Sorted(job_skills \ resume_skills)
        job_count == Cardinality(job_skills)
    IN  [match_percentage |->
             IF job_count # 0 THEN RoundHalfEven(Len(matched) * 10000, job_count) ELSE 0,
         present_skills |-> matched,
         missing_skills |-> missing,
         job_skill_count |-> job_count,
         matched_count |-> Len(matched)]

(***************************************************************************)
(* app.py: _norm and _robust_match_from_sets.  coverage is a float, the    *)
(* quotient of two integers; the model holds the two integers.             *)
(***************************************************************************)
\* str.lower() on the ASCII letters
Lower(s) == [i \in 1 .. Len(s) |-> IF s[i] \in 65 .. 90 THEN s[i] + 32 ELSE s[i]]

RECURSIVE SkipNotIn(_, _)
\* s without its longest prefix of characters outside cs
SkipNotIn(s, cs) ==
    IF s # <<>> /\ Head(s) \notin cs THEN SkipNotIn(Tail(s), cs) ELSE s

RECURSIVE Words(_)
\* s.split(): the maximal runs of characters that are not whitespace
Words(s) ==
    LET t == SkipIn(s, PyWhitespace)
    IN  IF t = <<>> THEN <<>>
        ELSE LET rest == SkipNotIn(t, PyWhitespace)
             IN  <<SubSeq(t, 1, Len(t) - Len(rest))>> \o Words(rest)

\* mutant: the label is not lowercased
_norm_KeepCase(s) ==
    Join(Words(Strip(IF s = None THEN <<>> ELSE s)), <<SP>>)

_norm(s) ==
    Join(Words(Lower(Strip(IF s = None THEN <<>> ELSE s))), <<SP>>)

\* the keys of {_norm(x): x for x in skills if _norm(x)}
NormKeys(skills) == {_norm(skills[i]) : i \in 1 .. Len(skills)} \ {<<>>}

\* the value of that dict at key k: the last label of the list with that key
NormLabel(skills, k) ==
    LET last == CHOOSE i \in 1 .. Len(skills) :
                    /\ _norm(skills[i]) = k
                    /\ \A j \in i + 1 .. Len(skills) : _norm(skills[j]) # k
    IN  skills[last]

_robust_match_from_sets(resume_skills, context_skills) ==
    LET resume_keys == NormKeys(resume_skills)
        context_keys == NormKeys(context_skills)
        overlap_keys == Sorted(resume_keys \cap context_keys)
        missing_keys == Sorted(context_keys \ resume_keys)
        denom == Max(1, Cardinality(context_keys))
    IN  [score |-> RoundHalfEven(Len(overlap_keys) * 100, denom),
         coverage |-> [num |-> Len(overlap_keys), den |-> denom],
         overlap_count |-> Len(overlap_keys),
         matched_skills |->
             [i \in 1 .. Len(overlap_keys) |-> NormLabel(context_skills, overlap_keys[i])],
         missing_skills |->
             [i \in 1 .. Len(missing_keys) |-> NormLabel(context_skills, missing_keys[i])]]

(***************************************************************************)
(* core/skills.py: SKILL_ALIASES, canonical name -> aliases, in the order  *)
(* of the dict.  The model keeps five of its entries, in that order, with  *)
(* their aliases as written: SQL, Machine Learning, Artificial             *)
(* Intelligence, Git and Power BI.                                         *)
(***************************************************************************)
SKILL_ALIASES ==
    << [canonical |-> "SQL",
        aliases |-> << <<83, 81, 76>>,                                \* SQL
                       <<83, 116, 114, 117, 99, 116, 117, 114, 101, 100, 32, 81,
                         117, 101, 114, 121, 32, 76, 97, 110, 103, 117, 97, 103,
                         101>> >>],                 \* Structured Query Language
       [canonical |-> "Machine Learning",
        aliases |-> << <<77, 97, 99, 104, 105, 110, 101, 32, 76, 101, 97, 114,
                         110, 105, 110, 103>>,               \* Machine Learning
                       <<77, 76>> >>],                                 \* ML
       [canonical |-> "Artificial Intelligence",
        aliases |-> << <<65, 114, 116, 105, 102, 105, 99, 105, 97, 108, 32, 73,
                         110, 116, 101, 108, 108, 105, 103, 101, 110, 99,
                         101>>,                       \* Artificial Intelligence
                       <<65, 73>> >>],                                 \* AI
       [canonical |-> "Git",
        aliases |-> << <<71, 105, 116>> >>],                           \* Git
       [canonical |-> "Power BI",
        aliases |-> << <<80, 111, 119, 101, 114, 32, 66, 73>>,    \* Power BI
                       <<80, 111, 119, 101, 114, 66, 73>> >>] >>   \* PowerBI

(***************************************************************************)
(* core/scoring.py: lines, alias patterns, evidence windows, extraction.   *)
(***************************************************************************)
\* _normalize_for_search: re.sub(r"\s+", " ", s).strip()
_normalize_for_search(s) ==
    Strip(SubRuns(IF s = None THEN <<>> ELSE s, PyWhitespace, SP))

\* the shortest line _lines keeps
MinLineLen == 4

\* mutant: every stripped line is kept, however short
_lines_KeepShort(t) ==
    [i \in 1 .. Len(Split(IF t = None THEN <<>> ELSE t, LF)) |->
        Strip(Split(IF t = None THEN <<>> ELSE t, LF)[i])]

\* _lines: the stripped lines of the text that have at least 4 characters
_lines(t) ==
    LET raw == [i \in 1 .. Len(Split(IF t = None THEN <<>> ELSE t, LF)) |->
                    Strip(Split(IF t = None THEN <<>> ELSE t, LF)[i])]
    IN  SelectSeq(raw, LAMBDA ln : Len(ln) >= MinLineLen)

\* the characters of \w among the ASCII characters: letters, digits, "_"
WordChars == (48 .. 57) \cup (65 .. 90) \cup (97 .. 122) \cup {95}

\* \b at the gap after the first p characters of s (0 <= p <= Len(s))
WordBoundary(s, p) ==
    LET before == p >= 1 /\ s[p] \in WordChars
        after == p < Len(s) /\ s[p + 1] \in WordChars
    IN  before # after

\* _compile_alias_pattern: the stripped non-blank aliases, the alternatives
\* of (?i)\b(...)\b; with none of them the pattern is a^, which never matches
_compile_alias_pattern(aliases) ==
    LET cleaned == SelectSeq([i \in 1 .. Len(aliases) |-> Strip(aliases[i])],
                             LAMBDA a : a # <<>>)
    IN  [never |-> cleaned = <<>>, alternatives |-> cleaned]

\* pattern.search(ln): some alternative occurs in ln, ignoring case, with a
\* word boundary on both sides
Search(pattern, ln) ==
    /\ ~pattern.never
    /\ \E k \in 1 .. Len(pattern.alternatives) :
          LET a == pattern.alternatives[k]
          IN  \E p \in 0 .. Len(ln) - Len(a) :
                 /\ WordBoundary(ln, p)
                 /\ WordBoundary(ln, p + Len(a))
                 /\ Lower(SubSeq(ln, p + 1, p + Len(a))) = Lower(a)

\* _ALIAS_PATTERNS: one compiled pattern per entry, in the order of the dict
_ALIAS_PATTERNS ==
    [k \in 1 .. Len(SKILL_ALIASES) |->
        [canonical |-> SKILL_ALIASES[k].canonical,
         pattern |-> _compile_alias_pattern(SKILL_ALIASES[k].aliases)]]

\* the longest snippet returned whole, and what follows a cut one (the three
\* characters of the marker as the source file spells it)
MaxSnippetLen == 260
EllipsisMarker == <<226, 8364, 166>>

\* lines[start:end] with start >= 0: a negative end counts from the end of
\* the list, an end before start gives the empty list; the slice holds the
\* elements start+1 .. end when the list is indexed from 1
Slice(lines, start, end) ==
    LET stop == IF end < 0 THEN Max(0, Len(lines) + end) ELSE Min(Len(lines), end)
    IN  SubSeq(lines, start + 1, stop)

\* mutant: the snippet is returned whole, however long it is
_evidence_window_NoCut(lines, hit_index, window) ==
    _normalize_for_search(
        Join(Slice(lines, Max(0, hit_index - 1 - window),
                   Min(Len(lines), hit_index + window)), <<SP, PIPE, SP>>))

\* mutant: end = hit_index + window without the + 1, so the window stops at
\* the hit line and leaves the following line out
_evidence_window_NoNext(lines, hit_index, window) ==
    LET snippet == _normalize_for_search(
                       Join(Slice(lines, Max(0, hit_index - 1 - window),
                                  Min(Len(lines), hit_index - 1 + window)),
                            <<SP, PIPE, SP>>))
    IN  IF Len(snippet) > MaxSnippetLen
        THEN SubSeq(snippet, 1, MaxSnippetLen) \o EllipsisMarker
        ELSE snippet

\* mutant: start = hit_index, so the window leaves the preceding lines out
_evidence_window_FromHit(lines, hit_index, window) ==
    LET snippet == _normalize_for_search(
                       Join(Slice(lines, Max(0, hit_index - 1),
                                  Min(Len(lines), hit_index + window)),
                            <<SP, PIPE, SP>>))
    IN  IF Len(snippet) > MaxSnippetLen
        THEN SubSeq(snippet, 1, MaxSnippetLen) \o EllipsisMarker
        ELSE snippet

\* _evidence_window(lines, hit_index, window), hit_index counted from 1: the
\* code's 0-based index is hit_index - 1, its start max(0, hit_index - 1 - window)
\* and its end min(len(lines), hit_index - 1 + window + 1)
_evidence_window(lines, hit_index, window) ==
    LET start == Max(0, hit_index - 1 - window)
        end == Min(Len(lines), hit_index + window)
        snippet == _normalize_for_search(
                       Join(Slice(lines, start, end), <<SP, PIPE, SP>>))
    IN  IF Len(snippet) > MaxSnippetLen
        THEN SubSeq(snippet, 1, MaxSnippetLen) \o EllipsisMarker
        ELSE snippet

RECURSIVE ScanLines(_, _, _, _, _)
\* the inner loop of extract_skills_with_evidence from line idx on: a hit is
\* appended first, and the loop is left once len(hits) >= max_snippets
ScanLines(pattern, lines, idx, hits, max_snippets) ==
    IF idx > Len(lines) THEN hits
    ELSE IF Search(pattern, lines[idx])
         THEN LET more == Append(hits, _evidence_window(lines, idx, 1))
              IN  IF Len(more) >= max_snippets THEN more
                  ELSE ScanLines(pattern, lines, idx + 1, more, max_snippets)
         ELSE ScanLines(pattern, lines, idx + 1, hits, max_snippets)

RECURSIVE FoundFrom_Prepend(_, _, _)
\* mutant: a skill that matched is put in front of the ones found before it
FoundFrom_Prepend(k, lines, max_snippets) ==
    IF k > Len(_ALIAS_PATTERNS) THEN <<>>
    ELSE LET hits == ScanLines(_ALIAS_PATTERNS[k].pattern, lines, 1, <<>>, max_snippets)
             item == [skill |-> _ALIAS_PATTERNS[k].canonical, snippets |-> hits]
         IN  FoundFrom_Prepend(k + 1, lines, max_snippets)
                 \o (IF hits # <<>> THEN <<item>> ELSE <<>>)

RECURSIVE FoundFrom(_, _, _)
\* the outer loop from the k-th pattern on: the dict found, as the sequence
\* of its items in insertion order
FoundFrom(k, lines, max_snippets) ==
    IF k > Len(_ALIAS_PATTERNS) THEN <<>>
    ELSE LET hits == ScanLines(_ALIAS_PATTERNS[k].pattern, lines, 1, <<>>, max_snippets)
             item == [skill |-> _ALIAS_PATTERNS[k].canonical, snippets |-> hits]
         IN  (IF hits # <<>> THEN <<item>> ELSE <<>>)
                 \o FoundFrom(k + 1, lines, max_snippets)

extract_skills_with_evidence(t, max_snippets_per_skill) ==
    IF t = None \/ t = <<>> THEN <<>>
    ELSE FoundFrom(1, _lines(t), max_snippets_per_skill)

\* init_session (core/session.py): the keys of st.session_state and their
\* defaults.  A cached output is represented by the email of the account it
\* was produced for, "" standing for None; pro_ai_bundle is not among the
\* defaults, and st.session_state.get answers None for a key that is absent.
init_session ==
    [theme |-> "dark", view |-> "Analyze", authed_email |-> "",
     auth_provider |-> "", is_pro |-> FALSE, analysis |-> "",
     ai_location_strategy |-> "", pro_ai_bundle |-> ""]

\* ProgressState() (core/progress.py): the defaults of the dataclass.  A
\* last_done is None, the text that date.isoformat writes for a day, or some
\* other text
ProgressState ==
    [streak |-> 0, last_done |-> [kind |-> "none", day |-> 0], history |-> <<>>]

(***************************************************************************)
(* State.  Each analysis function is pure; a call is one step that takes   *)
(* its arguments from the state and stores its return value there.         *)
(***************************************************************************)
VARIABLES
    pc,  \* what has been called so far
    text,  \* the argument of clean_text
    cleaned,  \* clean_text(text)
    recleaned,  \* clean_text(cleaned)
    resume_skills,  \* render_analyze: the skills found in the resume (a list)
    context_skills,  \* render_analyze: the target skills (a list)
    raw_match,  \* compute_match(set(resume_skills), set(context_skills))
    robust,  \* _robust_match_from_sets(resume_skills, context_skills)
    ev_text,  \* the text argument of extract_skills_with_evidence
    max_snippets_per_skill,  \* its second argument
    found,  \* its return value
    win_lines,  \* the lines argument of _evidence_window
    win_hit_index,  \* its hit_index argument, counted from 0 as in the code
    win_window,  \* its window argument
    win_snippet,  \* its return value
    move_missing_skills,  \* the missing_skills argument of decide_next_move
    next_move,  \* its return value
    health_text,  \* the text argument of resume_health_check
    health,  \* its return value
    alias_patterns,  \* scoring._ALIAS_PATTERNS, the table all calls share
    calls,  \* the calls in progress, one per thread: arguments, locals, result
    pipe_filename,  \* the filename argument of _cached_resume_pipeline
    pipe_document,  \* what the library finds in file_bytes: readable or not, its pages or paragraphs
    pipeline,  \* the outcome of the call: the exception raised or the tuple returned
    has_key,  \* _has_key(): OPENAI_API_KEY is set
    chat_raises,  \* the import of openai or the API call raises
    chat_content,  \* resp.choices[0].message.content, as a list of tokens
    insights,  \* the pair returned by ai_insights_bundle
    vip,  \* is_vip_email(email)
    user,  \* the row of the signed-in account in the users table
    now_period,  \* _month_start_iso(): the current month, counted from 0
    run_outcome,  \* how the last press of Run analysis ended
    session,  \* st.session_state of one browser session
    pro_accounts,  \* the emails whose row of the users table has is_pro set
    progress,  \* the ProgressState that load_progress returned
    today,  \* date.today(), as a day number
    marked,  \* the arguments of the last call of mark_done
    pat_aliases,  \* the argument of _compile_alias_pattern
    pat_line,  \* the line the pattern is searched in
    pat_compiled,  \* what _compile_alias_pattern returned or raised
    pat_hit,  \* whether pattern.search found a match
    stored_user,  \* the row of the account in the users table
    runs,  \* per session, where its script run is and the User object it holds
    completed,  \* the number of analyses stored so far in the period
    target_role,  \* render_analyze: the option chosen in the select box Target role
    seniority,  \* render_analyze: the option chosen in the select box Seniority
    role_cv,  \* the skills found in the resume, canonical names
    role_targets,  \* get_role_targets(target_role, seniority)
    role_context,  \* _parse_role_context in the mode Role Targets
    role_match  \* _robust_match_from_sets(role_cv, role_context)

cleaningVars == <<text, cleaned, recleaned>>
scoringVars == <<resume_skills, context_skills, raw_match, robust>>
evidenceVars == <<ev_text, max_snippets_per_skill, found>>
windowVars == <<win_lines, win_hit_index, win_window, win_snippet>>
moveVars == <<move_missing_skills, next_move>>
healthVars == <<health_text, health>>
sharedVars == <<alias_patterns, calls>>
pipelineVars == <<pipe_filename, pipe_document, pipeline>>
aiVars == <<has_key, chat_raises, chat_content, insights>>
accountVars == <<vip, user, now_period, run_outcome>>
sessionVars == <<session, pro_accounts>>
progressVars == <<progress, today, marked>>
patternVars == <<pat_aliases, pat_line, pat_compiled, pat_hit>>
quotaVars == <<stored_user, runs, completed>>
rolesVars == <<target_role, seniority, role_cv, role_targets, role_context, role_match>>
vars == <<pc, text, cleaned, recleaned, resume_skills, context_skills,
          raw_match, robust, ev_text, max_snippets_per_skill, found,
          win_lines, win_hit_index, win_window, win_snippet,
          move_missing_skills, next_move, health_text, health,
          alias_patterns, calls, pipe_filename, pipe_document, pipeline,
          has_key, chat_raises, chat_content, insights, vip, user,
          now_period, run_outcome, session, pro_accounts, progress, today,
          marked, pat_aliases, pat_line, pat_compiled, pat_hit, stored_user,
          runs, completed, target_role, seniority, role_cv, role_targets,
          role_context, role_match>>

\* the variables of a component while another one is exercised
IdleCleaning ==
    /\ text = <<>>
    /\ cleaned = None
    /\ recleaned = None
IdleScoring ==
    /\ resume_skills = <<>>
    /\ context_skills = <<>>
    /\ raw_match = compute_match({}, {})
    /\ robust = _robust_match_from_sets(<<>>, <<>>)
IdleEvidence ==
    /\ ev_text = <<>>
    /\ max_snippets_per_skill = 2
    /\ found = <<>>
IdleWindow ==
    /\ win_lines = <<>>
    /\ win_hit_index = 0
    /\ win_window = 1
    /\ win_snippet = None
IdleMove ==
    /\ move_missing_skills = <<>>
    /\ next_move = None
IdleHealth ==
    /\ health_text = <<>>
    /\ health = None
IdleShared ==
    /\ alias_patterns = _ALIAS_PATTERNS
    /\ calls = <<>>
IdlePipeline ==
    /\ pipe_filename = <<>>
    /\ pipe_document = [readable |-> FALSE, parts |-> <<>>]
    /\ pipeline = None
IdleAi ==
    /\ has_key = FALSE
    /\ chat_raises = FALSE
    /\ chat_content = <<>>
    /\ insights = [data |-> <<>>, error |-> <<>>]
IdleAccount ==
    /\ vip = FALSE
    /\ user = [period_start |-> 0, free_runs_used |-> 0, ai_runs_used |-> 0, is_pro |-> 0]
    /\ now_period = 0
    /\ run_outcome = "none"
IdleSession ==
    /\ session = init_session
    /\ pro_accounts = {}
IdleProgress ==
    /\ progress = ProgressState
    /\ today = 0
    /\ marked = [made |-> FALSE, state |-> ProgressState, today |-> 0, skill |-> "", action |-> ""]
IdlePattern ==
    /\ pat_aliases = <<>>
    /\ pat_line = <<>>
    /\ pat_compiled = [raised |-> "", value |-> None]
    /\ pat_hit = FALSE
IdleQuota ==
    /\ stored_user = [period_start |-> 0, free_runs_used |-> 0, ai_runs_used |-> 0, is_pro |-> 0]
    /\ runs = <<>>
    /\ completed = 0
IdleRoles ==
    /\ target_role = <<>>
    /\ seniority = <<>>
    /\ role_cv = <<>>
    /\ role_targets = <<>>
    /\ role_context = <<>>
    /\ role_match = _robust_match_from_sets(<<>>, <<>>)

\* all components but one: what an action of that one leaves alone, and
\* what is idle while it is exercised
exceptCleaning == <<scoringVars, evidenceVars, windowVars, moveVars,
          healthVars, sharedVars, pipelineVars, aiVars, accountVars,
          sessionVars, progressVars, patternVars, quotaVars, rolesVars>>
IdleExceptCleaning ==
    /\ IdleScoring
    /\ IdleEvidence
    /\ IdleWindow
    /\ IdleMove
    /\ IdleHealth
    /\ IdleShared
    /\ IdlePipeline
    /\ IdleAi
    /\ IdleAccount
    /\ IdleSession
    /\ IdleProgress
    /\ IdlePattern
    /\ IdleQuota
    /\ IdleRoles
exceptScoring == <<cleaningVars, evidenceVars, windowVars, moveVars,
          healthVars, sharedVars, pipelineVars, aiVars, accountVars,
          sessionVars, progressVars, patternVars, quotaVars, rolesVars>>
IdleExceptScoring ==
    /\ IdleCleaning
    /\ IdleEvidence
    /\ IdleWindow
    /\ IdleMove
    /\ IdleHealth
    /\ IdleShared
    /\ IdlePipeline
    /\ IdleAi
    /\ IdleAccount
    /\ IdleSession
    /\ IdleProgress
    /\ IdlePattern
    /\ IdleQuota
    /\ IdleRoles
exceptEvidence == <<cleaningVars, scoringVars, windowVars, moveVars,
          healthVars, sharedVars, pipelineVars, aiVars, accountVars,
          sessionVars, progressVars, patternVars, quotaVars, rolesVars>>
IdleExceptEvidence ==
    /\ IdleCleaning
    /\ IdleScoring
    /\ IdleWindow
    /\ IdleMove
    /\ IdleHealth
    /\ IdleShared
    /\ IdlePipeline
    /\ IdleAi
    /\ IdleAccount
    /\ IdleSession
    /\ IdleProgress
    /\ IdlePattern
    /\ IdleQuota
    /\ IdleRoles
exceptWindow == <<cleaningVars, scoringVars, evidenceVars, moveVars,
          healthVars, sharedVars, pipelineVars, aiVars, accountVars,
          sessionVars, progressVars, patternVars, quotaVars, rolesVars>>
IdleExceptWindow ==
    /\ IdleCleaning
    /\ IdleScoring
    /\ IdleEvidence
    /\ IdleMove
    /\ IdleHealth
    /\ IdleShared
    /\ IdlePipeline
    /\ IdleAi
    /\ IdleAccount
    /\ IdleSession
    /\ IdleProgress
    /\ IdlePattern
    /\ IdleQuota
    /\ IdleRoles
exceptMove == <<cleaningVars, scoringVars, evidenceVars, windowVars,
          healthVars, sharedVars, pipelineVars, aiVars, accountVars,
          sessionVars, progressVars, patternVars, quotaVars, rolesVars>>
IdleExceptMove ==
    /\ IdleCleaning
    /\ IdleScoring
    /\ IdleEvidence
    /\ IdleWindow
    /\ IdleHealth
    /\ IdleShared
    /\ IdlePipeline
    /\ IdleAi
    /\ IdleAccount
    /\ IdleSession
    /\ IdleProgress
    /\ IdlePattern
    /\ IdleQuota
    /\ IdleRoles
exceptHealth == <<cleaningVars, scoringVars, evidenceVars, windowVars,
          moveVars, sharedVars, pipelineVars, aiVars, accountVars,
          sessionVars, progressVars, patternVars, quotaVars, rolesVars>>
IdleExceptHealth ==
    /\ IdleCleaning
    /\ IdleScoring
    /\ IdleEvidence
    /\ IdleWindow
    /\ IdleMove
    /\ IdleShared
    /\ IdlePipeline
    /\ IdleAi
    /\ IdleAccount
    /\ IdleSession
    /\ IdleProgress
    /\ IdlePattern
    /\ IdleQuota
    /\ IdleRoles
exceptShared == <<cleaningVars, scoringVars, evidenceVars, windowVars,
          moveVars, healthVars, pipelineVars, aiVars, accountVars,
          sessionVars, progressVars, patternVars, quotaVars, rolesVars>>
IdleExceptShared ==
    /\ IdleCleaning
    /\ IdleScoring
    /\ IdleEvidence
    /\ IdleWindow
    /\ IdleMove
    /\ IdleHealth
    /\ IdlePipeline
    /\ IdleAi
    /\ IdleAccount
    /\ IdleSession
    /\ IdleProgress
    /\ IdlePattern
    /\ IdleQuota
    /\ IdleRoles
exceptPipeline == <<cleaningVars, scoringVars, evidenceVars, windowVars,
          moveVars, healthVars, sharedVars, aiVars, accountVars, sessionVars,
          progressVars, patternVars, quotaVars, rolesVars>>
IdleExceptPipeline ==
    /\ IdleCleaning
    /\ IdleScoring
    /\ IdleEvidence
    /\ IdleWindow
    /\ IdleMove
    /\ IdleHealth
    /\ IdleShared
    /\ IdleAi
    /\ IdleAccount
    /\ IdleSession
    /\ IdleProgress
    /\ IdlePattern
    /\ IdleQuota
    /\ IdleRoles
exceptAi == <<cleaningVars, scoringVars, evidenceVars, windowVars, moveVars,
          healthVars, sharedVars, pipelineVars, accountVars, sessionVars,
          progressVars, patternVars, quotaVars, rolesVars>>
IdleExceptAi ==
    /\ IdleCleaning
    /\ IdleScoring
    /\ IdleEvidence
    /\ IdleWindow
    /\ IdleMove
    /\ IdleHealth
    /\ IdleShared
    /\ IdlePipeline
    /\ IdleAccount
    /\ IdleSession
    /\ IdleProgress
    /\ IdlePattern
    /\ IdleQuota
    /\ IdleRoles
exceptAccount == <<cleaningVars, scoringVars, evidenceVars, windowVars,
          moveVars, healthVars, sharedVars, pipelineVars, aiVars,
          sessionVars, progressVars, patternVars, quotaVars, rolesVars>>
IdleExceptAccount ==
    /\ IdleCleaning
    /\ IdleScoring
    /\ IdleEvidence
    /\ IdleWindow
    /\ IdleMove
    /\ IdleHealth
    /\ IdleShared
    /\ IdlePipeline
    /\ IdleAi
    /\ IdleSession
    /\ IdleProgress
    /\ IdlePattern
    /\ IdleQuota
    /\ IdleRoles
exceptSession == <<cleaningVars, scoringVars, evidenceVars, windowVars,
          moveVars, healthVars, sharedVars, pipelineVars, aiVars,
          accountVars, progressVars, patternVars, quotaVars, rolesVars>>
IdleExceptSession ==
    /\ IdleCleaning
    /\ IdleScoring
    /\ IdleEvidence
    /\ IdleWindow
    /\ IdleMove
    /\ IdleHealth
    /\ IdleShared
    /\ IdlePipeline
    /\ IdleAi
    /\ IdleAccount
    /\ IdleProgress
    /\ IdlePattern
    /\ IdleQuota
    /\ IdleRoles
exceptProgress == <<cleaningVars, scoringVars, evidenceVars, windowVars,
          moveVars, healthVars, sharedVars, pipelineVars, aiVars,
          accountVars, sessionVars, patternVars, quotaVars, rolesVars>>
IdleExceptProgress ==
    /\ IdleCleaning
    /\ IdleScoring
    /\ IdleEvidence
    /\ IdleWindow
    /\ IdleMove
    /\ IdleHealth
    /\ IdleShared
    /\ IdlePipeline
    /\ IdleAi
    /\ IdleAccount
    /\ IdleSession
    /\ IdlePattern
    /\ IdleQuota
    /\ IdleRoles
exceptPattern == <<cleaningVars, scoringVars, evidenceVars, windowVars,
          moveVars, healthVars, sharedVars, pipelineVars, aiVars,
          accountVars, sessionVars, progressVars, quotaVars, rolesVars>>
IdleExceptPattern ==
    /\ IdleCleaning
    /\ IdleScoring
    /\ IdleEvidence
    /\ IdleWindow
    /\ IdleMove
    /\ IdleHealth
    /\ IdleShared
    /\ IdlePipeline
    /\ IdleAi
    /\ IdleAccount
    /\ IdleSession
    /\ IdleProgress
    /\ IdleQuota
    /\ IdleRoles
exceptQuota == <<cleaningVars, scoringVars, evidenceVars, windowVars,
          moveVars, healthVars, sharedVars, pipelineVars, aiVars,
          accountVars, sessionVars, progressVars, patternVars, rolesVars>>
IdleExceptQuota ==
    /\ IdleCleaning
    /\ IdleScoring
    /\ IdleEvidence
    /\ IdleWindow
    /\ IdleMove
    /\ IdleHealth
    /\ IdleShared
    /\ IdlePipeline
    /\ IdleAi
    /\ IdleAccount
    /\ IdleSession
    /\ IdleProgress
    /\ IdlePattern
    /\ IdleRoles
exceptRoles == <<cleaningVars, scoringVars, evidenceVars, windowVars,
          moveVars, healthVars, sharedVars, pipelineVars, aiVars,
          accountVars, sessionVars, progressVars, patternVars, quotaVars>>
IdleExceptRoles ==
    /\ IdleCleaning
    /\ IdleScoring
    /\ IdleEvidence
    /\ IdleWindow
    /\ IdleMove
    /\ IdleHealth
    /\ IdleShared
    /\ IdlePipeline
    /\ IdleAi
    /\ IdleAccount
    /\ IdleSession
    /\ IdleProgress
    /\ IdlePattern
    /\ IdleQuota

(***************************************************************************)
(* Inputs of clean_text: every text of at most MaxTextLen characters over  *)
(* CleanChars (NUL, TAB, LF, VT, CR, space, "a", en dash, bullet), every   *)
(* text of at most MaxLinesTextLen characters over LineChars ("a", space,  *)
(* TAB, LF), and None.                                                     *)
(***************************************************************************)
MaxTextLen == 4
MaxLinesTextLen == 6
CleanChars == {0, TAB, LF, 11, CR, SP, 97, ENDASH, Bullets[1]}
LineChars == {97, SP, TAB, LF}

Texts(chars, n) == UNION {[1 .. k -> chars] : k \in 0 .. n}

CleanInputs ==
    Texts(CleanChars, MaxTextLen) \cup Texts(LineChars, MaxLinesTextLen) \cup {None}

InitCleaning ==
    /\ pc = "start"
    /\ text \in CleanInputs
    /\ cleaned = None
    /\ recleaned = None
    /\ IdleExceptCleaning

\* cleaned = clean_text(text)
CleanText ==
    /\ pc = "start"
    /\ cleaned' = clean_text(text)
    /\ pc' = "cleaned"
    /\ UNCHANGED <<text, recleaned, exceptCleaning>>

\* recleaned = clean_text(cleaned)
CleanTextAgain ==
    /\ pc = "cleaned"
    /\ recleaned' = clean_text(cleaned)
    /\ pc' = "recleaned"
    /\ UNCHANGED <<text, cleaned, exceptCleaning>>

NextCleaning == CleanText \/ CleanTextAgain

SpecCleaning == InitCleaning /\ [][NextCleaning]_vars

(***************************************************************************)
(* C5: clean_text is idempotent: cleaning the cleaned text of any input    *)
(* (bullets, CR/LF mixes, tabs, blank lines included) returns it unchanged.*)
(***************************************************************************)
C5_CleanIdempotent == pc = "recleaned" => recleaned = cleaned

\* a text with a bullet, a CR and a tab, which cleaning changes, cleaned twice
C5_Witness ==
    /\ pc = "recleaned"
    /\ {Bullets[1], CR, TAB} \subseteq Range(text)
    /\ cleaned # text
    /\ cleaned # <<>>

(***************************************************************************)
(* Vocabulary of the claims about clean_text.                              *)
(***************************************************************************)
BulletSet == Range(Bullets)

\* Unicode control characters (category Cc)
ControlChars == (0 .. 31) \cup (127 .. 159)

RECURSIVE InputLines(_)
\* the lines of a text, a line break being CR LF, CR or LF
InputLines(t) ==
    IF t = <<>> THEN << <<>> >>
    ELSE IF Len(t) >= 2 /\ t[1] = CR /\ t[2] = LF
         THEN << <<>> >> \o InputLines(SubSeq(t, 3, Len(t)))
    ELSE IF t[1] \in {CR, LF} THEN << <<>> >> \o InputLines(Tail(t))
    ELSE LET r == InputLines(Tail(t))
         IN  << <<t[1]>> \o Head(r) >> \o Tail(r)

\* the lines of the output, which is empty or LF-separated
OutputLines(t) == IF t = <<>> THEN <<>> ELSE Split(t, LF)

IsBlank(line) == \A i \in 1 .. Len(line) : line[i] \in PyWhitespace

Count(s, c) == Cardinality({i \in 1 .. Len(s) : s[i] = c})

\* a line as the claims expect it: without the whitespace at its ends, every
\* run of the characters of ws replaced by one space, an en dash by a hyphen
NormLine(line, ws) ==
    LET core == Strip(line)
    IN  [i \in 1 .. Len(SubRuns(core, ws, SP)) |->
            IF SubRuns(core, ws, SP)[i] = ENDASH THEN HYPHEN
            ELSE SubRuns(core, ws, SP)[i]]

RECURSIVE Pieces(_)
\* a line cut before each bullet glyph, a space put after the glyph
Pieces(line) ==
    IF line = <<>> THEN << <<>> >>
    ELSE LET r == Pieces(Tail(line))
         IN  IF Head(line) \in BulletSet
             THEN << <<>>, <<Head(line), SP>> \o Head(r) >> \o Tail(r)
             ELSE << <<Head(line)>> \o Head(r) >> \o Tail(r)

RECURSIVE Flatten(_)
Flatten(ss) == IF ss = <<>> THEN <<>> ELSE Head(ss) \o Flatten(Tail(ss))

NonBlank(lines) == SelectSeq(lines, LAMBDA l : ~IsBlank(l))

NoEdgeWhitespace(line) ==
    line # <<>> /\ line[1] \notin PyWhitespace /\ line[Len(line)] \notin PyWhitespace

(***************************************************************************)
(* C6: a run of 3 or more consecutive blank lines between two blocks of    *)
(* the input is collapsed to exactly one blank line of the output: the     *)
(* blank line separating the blocks is kept.                               *)
(***************************************************************************)
\* lines i and j hold text and the j - i - 1 >= 3 lines between them are blank
BlankRun3(lines, i, j) ==
    /\ j - i >= 4
    /\ ~IsBlank(lines[i]) /\ ~IsBlank(lines[j])
    /\ \A k \in i + 1 .. j - 1 : IsBlank(lines[k])

HasBlankRun3(t) ==
    \E i, j \in 1 .. Len(InputLines(t)) : BlankRun3(InputLines(t), i, j)

C6_BlankRunKeepsOneBlankLine ==
    (pc = "cleaned" /\ text # None /\ HasBlankRun3(text))
        => \E k \in 1 .. Len(OutputLines(cleaned)) : OutputLines(cleaned)[k] = <<>>

(***************************************************************************)
(* C7 as stated: the output of clean_text holds no NUL and no other        *)
(* control character apart from its line breaks.                           *)
(***************************************************************************)
C7_NoControlChars ==
    pc = "cleaned" => Range(cleaned) \cap (ControlChars \ {LF}) = {}

(***************************************************************************)
(* C7 as amended: clean_text rewrites only CR (to a line break) and TAB    *)
(* (to a space) and strips the whitespace at the ends of a line: the       *)
(* output holds no CR and no TAB and no line of it begins or ends with a   *)
(* whitespace control character, while every NUL of the input is kept.     *)
(***************************************************************************)
C7_ControlCharsKept ==
    (pc = "cleaned" /\ text # None) =>
        /\ CR \notin Range(cleaned)
        /\ TAB \notin Range(cleaned)
        /\ \A k \in 1 .. Len(OutputLines(cleaned)) :
                NoEdgeWhitespace(OutputLines(cleaned)[k])
        /\ Count(cleaned, 0) = Count(text, 0)

\* a text with a NUL, a CR and a TAB has been cleaned and the NUL is still there
C7_Witness ==
    /\ pc = "cleaned"
    /\ {0, CR, TAB} \subseteq Range(text)
    /\ 0 \in Range(cleaned)

(***************************************************************************)
(* C8 as stated: no output line holds two adjacent whitespace characters   *)
(* or whitespace at its ends, the non-blank input lines are the output     *)
(* lines (normalised) in the same order, and an empty or None input gives  *)
(* the empty string.                                                       *)
(***************************************************************************)
NoAdjacent(line, ws) ==
    \A i \in 1 .. Len(line) - 1 : ~(line[i] \in ws /\ line[i + 1] \in ws)

C8_LinesPreserved ==
    pc = "cleaned" =>
        IF text = None \/ text = <<>> THEN cleaned = <<>>
        ELSE /\ \A k \in 1 .. Len(OutputLines(cleaned)) :
                    /\ NoAdjacent(OutputLines(cleaned)[k], PyWhitespace)
                    /\ NoEdgeWhitespace(OutputLines(cleaned)[k])
             /\ OutputLines(cleaned) =
                    [i \in 1 .. Len(NonBlank(InputLines(text))) |->
                        NormLine(NonBlank(InputLines(text))[i], PyWhitespace)]

(***************************************************************************)
(* C8 as amended: no output line holds a tab, two adjacent spaces or       *)
(* whitespace at its ends; the output lines are the non-blank input lines  *)
(* in the same order, each stripped, with its runs of spaces and tabs      *)
(* collapsed to one space and en dashes written as hyphens, except that    *)
(* every bullet glyph starts a new output line and is followed by one      *)
(* space; an empty or None input gives the empty string.                   *)
(***************************************************************************)
ExpectedPieces(t) ==
    NonBlank(Flatten([i \in 1 .. Len(InputLines(t)) |-> Pieces(InputLines(t)[i])]))

C8_LinesPreservedUpToBullets ==
    pc = "cleaned" =>
        IF text = None \/ text = <<>> THEN cleaned = <<>>
        ELSE /\ \A k \in 1 .. Len(OutputLines(cleaned)) :
                    /\ TAB \notin Range(OutputLines(cleaned)[k])
                    /\ NoAdjacent(OutputLines(cleaned)[k], {SP})
                    /\ NoEdgeWhitespace(OutputLines(cleaned)[k])
             /\ OutputLines(cleaned) =
                    [i \in 1 .. Len(ExpectedPieces(text)) |->
                        NormLine(ExpectedPieces(text)[i], {SP, TAB})]

\* two input lines, one with a run of spaces and tabs inside it, cleaned to
\* two output lines
C8_Witness ==
    /\ pc = "cleaned"
    /\ text # None
    /\ Len(NonBlank(InputLines(text))) = 2
    /\ Len(OutputLines(cleaned)) = 2
    /\ \E i \in 2 .. Len(text) - 2 :
            /\ text[i] \in {SP, TAB} /\ text[i + 1] \in {SP, TAB}
            /\ text[i - 1] = 97 /\ text[i + 2] = 97
    /\ Len(cleaned) = Len(text) - 1

(***************************************************************************)
(* Scoring, as render_analyze calls it: both functions on the same two     *)
(* lists of labels.  The lists hold at most MaxResumeSkills and            *)
(* MaxContextSkills labels of SkillLabels: "SQL", "sql ", "A  b", "a b"    *)
(* and " " (labels that differ in case and whitespace only, and a blank).  *)
(***************************************************************************)
MaxResumeSkills == 2
MaxContextSkills == 3

SkillLabels ==
    {<<83, 81, 76>>, <<115, 113, 108, 32>>, <<65, 32, 32, 98>>, <<97, 32, 98>>, <<32>>}

Lists(S, n) == UNION {[1 .. k -> S] : k \in 0 .. n}

InitScoring ==
    /\ pc = "start"
    /\ resume_skills \in Lists(SkillLabels, MaxResumeSkills)
    /\ context_skills \in Lists(SkillLabels, MaxContextSkills)
    /\ raw_match = compute_match({}, {})
    /\ robust = _robust_match_from_sets(<<>>, <<>>)
    /\ IdleExceptScoring

\* raw_match = compute_match(set(resume_skills), set(context_skills))
ComputeMatch ==
    /\ pc = "start"
    /\ raw_match' = compute_match(Range(resume_skills), Range(context_skills))
    /\ pc' = "matched"
    /\ UNCHANGED <<resume_skills, context_skills, robust, exceptScoring>>

\* robust = _robust_match_from_sets(resume_skills, context_skills)
RobustMatch ==
    /\ pc = "matched"
    /\ robust' = _robust_match_from_sets(resume_skills, context_skills)
    /\ pc' = "scored"
    /\ UNCHANGED <<resume_skills, context_skills, raw_match, exceptScoring>>

NextScoring == ComputeMatch \/ RobustMatch

SpecScoring == InitScoring /\ [][NextScoring]_vars

(***************************************************************************)
(* Vocabulary of the claims about scoring.                                 *)
(***************************************************************************)
\* a label as the claims compare it: lowercase, without the whitespace at
\* its ends, every run of whitespace inside it one space
Squeeze(label) == SubRuns(Strip(Lower(label)), PyWhitespace, SP)

\* two labels that differ in case and whitespace only
SameSkill(a, b) == Squeeze(a) = Squeeze(b)

NonBlankLabels(skills) == {l \in Range(skills) : ~IsBlank(l)}

(***************************************************************************)
(* C1: compute_match returns as present_skills exactly resume \cap job, as *)
(* missing_skills exactly job \ resume, and as match_percentage            *)
(* 100 * |present| / |job| rounded to 2 decimals, or 0.0 for an empty job  *)
(* set; 2 of 3 job skills present give 66.67.                              *)
(***************************************************************************)
Abs(x) == IF x < 0 THEN -x ELSE x

C1_ComputeMatchExact ==
    pc \in {"matched", "scored"} =>
        LET R == Range(resume_skills)
            J == Range(context_skills)
            pct == raw_match.match_percentage
        IN  /\ Range(raw_match.present_skills) = R \cap J
            /\ Len(raw_match.present_skills) = Cardinality(R \cap J)
            /\ Range(raw_match.missing_skills) = J \ R
            /\ Len(raw_match.missing_skills) = Cardinality(J \ R)
            /\ J = {} => pct = 0
            \* pct / 100 is a nearest multiple of 0.01 to 100 * |R \cap J| / |J|
            /\ J # {} =>
                 2 * Abs(pct * Cardinality(J) - 10000 * Cardinality(R \cap J))
                     <= Cardinality(J)
            /\ (Cardinality(R \cap J) = 2 /\ Cardinality(J) = 3) => pct = 6667

\* the resume has 2 of the 3 job skills: 66.67 and one missing skill
C1_Witness ==
    /\ pc = "matched"
    /\ Cardinality(Range(resume_skills)) = 2
    /\ Cardinality(Range(context_skills)) = 3
    /\ Range(resume_skills) \subseteq Range(context_skills)
    /\ raw_match.match_percentage = 6667
    /\ Len(raw_match.present_skills) = 2
    /\ Len(raw_match.missing_skills) = 1

(***************************************************************************)
(* C2: _robust_match_from_sets matches on normalized keys: a target label  *)
(* is matched iff some resume label differs from it in case and whitespace *)
(* only (["SQL"] against ["sql "] gives overlap_count 1), and every label  *)
(* emitted in matched_skills and missing_skills is a target-side original  *)
(* label, one for each normalized target key.                              *)
(***************************************************************************)
C2_NormalizedMatch ==
    pc = "scored" =>
        LET targets == NonBlankLabels(context_skills)
            Hit(l) == \E r \in NonBlankLabels(resume_skills) : SameSkill(l, r)
            emitted == robust.matched_skills \o robust.missing_skills
        IN  /\ \A i \in 1 .. Len(robust.matched_skills) :
                   robust.matched_skills[i] \in targets /\ Hit(robust.matched_skills[i])
            /\ \A i \in 1 .. Len(robust.missing_skills) :
                   robust.missing_skills[i] \in targets /\ ~Hit(robust.missing_skills[i])
            /\ \A l \in targets :
                   Cardinality({i \in 1 .. Len(emitted) : SameSkill(l, emitted[i])}) = 1
            /\ robust.overlap_count = Len(robust.matched_skills)

\* resume ["SQL"] against target ["sql "]: one match, shown as "sql "
C2_Witness ==
    /\ pc = "scored"
    /\ resume_skills = << <<83, 81, 76>> >>
    /\ context_skills = << <<115, 113, 108, 32>> >>
    /\ robust.overlap_count = 1
    /\ robust.matched_skills = << <<115, 113, 108, 32>> >>
    /\ robust.missing_skills = <<>>

(***************************************************************************)
(* C3: both compute_match and _robust_match_from_sets return exactly the   *)
(* same result for every permutation of the input collections, emitted     *)
(* labels and their order included.                                        *)
(***************************************************************************)
Perms(n) == {p \in [1 .. n -> 1 .. n] : \A i, j \in 1 .. n : p[i] = p[j] => i = j}

Permuted(s, p) == [i \in 1 .. Len(s) |-> s[p[i]]]

C3_OrderIndependent ==
    pc = "scored" =>
        \A p \in Perms(Len(resume_skills)), q \in Perms(Len(context_skills)) :
            /\ compute_match(Range(Permuted(resume_skills, p)),
                             Range(Permuted(context_skills, q))) = raw_match
            /\ _robust_match_from_sets(Permuted(resume_skills, p),
                                       Permuted(context_skills, q)) = robust

(***************************************************************************)
(* C4: match_percentage is in [0, 100]; the normalized variant returns an  *)
(* integer score in 0 .. 100 and a coverage in [0, 1] that is the number   *)
(* of matched keys over max(1, number of normalized target keys).          *)
(***************************************************************************)
C4_ScoreInRange ==
    /\ pc \in {"matched", "scored"} =>
           raw_match.match_percentage \in 0 .. 10000
    /\ pc = "scored" =>
           /\ robust.score \in 0 .. 100
           /\ 0 <= robust.coverage.num /\ robust.coverage.num <= robust.coverage.den
           /\ robust.coverage.num = robust.overlap_count
           /\ robust.coverage.den =
                  Max(1, Cardinality({Squeeze(l) : l \in NonBlankLabels(context_skills)}))

\* a partial match: both scores strictly between 0 and 100, with at least
\* two normalized target keys
C4_Witness ==
    /\ pc = "scored"
    /\ raw_match.match_percentage \in 1 .. 9999
    /\ robust.score \in 1 .. 99
    /\ robust.coverage.den >= 2

(***************************************************************************)
(* Skill extraction.  The text is at most MaxEvidenceLines lines of        *)
(* EvidenceLines joined by line breaks, max_snippets_per_skill is at most  *)
(* MaxSnippetsArg.  The lines: "used SQL", "git, ml", "mysql db" (no       *)
(* alias as a whole word), "  SQL " (3 characters once stripped),          *)
(* "SQL<TAB>and AI", "Built dashboards using Power BI for executive        *)
(* reporting" and a line of LongLineLen letters, longer than a snippet.    *)
(***************************************************************************)
MaxEvidenceLines == 3
MaxSnippetsArg == 2
LongLineLen == 261

\* a line of n letters "x"
XLine(n) == [i \in 1 .. n |-> 120]

EvidenceLines ==
    {<<117, 115, 101, 100, 32, 83, 81, 76>>,
     <<103, 105, 116, 44, 32, 109, 108>>,
     <<109, 121, 115, 113, 108, 32, 100, 98>>,
     <<32, 32, 83, 81, 76, 32>>,
     <<83, 81, 76, 9, 97, 110, 100, 32, 65, 73>>,
     <<66, 117, 105, 108, 116, 32, 100, 97, 115, 104, 98, 111, 97, 114,
       100, 115, 32, 117, 115, 105, 110, 103, 32, 80, 111, 119, 101,
       114, 32, 66, 73, 32, 102, 111, 114, 32, 101, 120, 101, 99, 117,
       116, 105, 118, 101, 32, 114, 101, 112, 111, 114, 116, 105, 110,
       103>>,
     XLine(LongLineLen)}

InitEvidence ==
    /\ pc = "start"
    /\ \E ls \in Lists(EvidenceLines, MaxEvidenceLines) : ev_text = Join(ls, <<LF>>)
    /\ max_snippets_per_skill \in 0 .. MaxSnippetsArg
    /\ found = <<>>
    /\ IdleExceptEvidence

\* found = extract_skills_with_evidence(ev_text, max_snippets_per_skill)
ExtractSkillsWithEvidence ==
    /\ pc = "start"
    /\ found' = extract_skills_with_evidence(ev_text, max_snippets_per_skill)
    /\ pc' = "extracted"
    /\ UNCHANGED <<ev_text, max_snippets_per_skill, exceptEvidence>>

NextEvidence == ExtractSkillsWithEvidence

SpecEvidence == InitEvidence /\ [][NextEvidence]_vars

(***************************************************************************)
(* Vocabulary of the claims about skill extraction.                        *)
(***************************************************************************)
\* the place of a canonical skill in SKILL_ALIASES
TaxonomyIndex(skill) ==
    CHOOSE k \in 1 .. Len(SKILL_ALIASES) : SKILL_ALIASES[k].canonical = skill

\* the indices, in line order, of the scanned lines a skill's pattern matches
MatchingLines(skill, lines) ==
    SelectSeq([i \in 1 .. Len(lines) |-> i],
              LAMBDA i : Search(_ALIAS_PATTERNS[TaxonomyIndex(skill)].pattern, lines[i]))

FoundSkills == {found[i].skill : i \in 1 .. Len(found)}

(***************************************************************************)
(* C9: for every text and every max_snippets_per_skill N >= 0 a skill has  *)
(* at most N snippets, and they are the windows of its first N matching    *)
(* lines, in line order.                                                   *)
(***************************************************************************)
C9_AtMostNSnippets ==
    pc = "extracted" =>
        \A i \in 1 .. Len(found) :
            LET lines == _lines(ev_text)
                hit == MatchingLines(found[i].skill, lines)
                n == Min(max_snippets_per_skill, Len(hit))
            IN  /\ Len(found[i].snippets) <= max_snippets_per_skill
                /\ found[i].snippets =
                       [k \in 1 .. n |-> _evidence_window(lines, hit[k], 1)]

(***************************************************************************)
(* C10 as stated: the evidence map lists the skills in the order of their  *)
(* first match in the text: a skill whose first matching line comes        *)
(* earlier is inserted earlier (checked for max_snippets_per_skill >= 1).  *)
(***************************************************************************)
C10_FirstMatchOrder ==
    (pc = "extracted" /\ max_snippets_per_skill >= 1) =>
        \A i, j \in 1 .. Len(found) :
            LET lines == _lines(ev_text)
            IN  MatchingLines(found[i].skill, lines)[1]
                    < MatchingLines(found[j].skill, lines)[1] => i < j

(***************************************************************************)
(* C10 as amended: the evidence map lists the skills that match some       *)
(* scanned line in the order of the taxonomy (SKILL_ALIASES), wherever in  *)
(* the text each of them first matches.                                    *)
(***************************************************************************)
C10_TaxonomyOrder ==
    pc = "extracted" =>
        /\ \A i, j \in 1 .. Len(found) :
               i < j => TaxonomyIndex(found[i].skill) < TaxonomyIndex(found[j].skill)
        /\ FoundSkills =
               {SKILL_ALIASES[k].canonical : k \in
                   {k \in 1 .. Len(SKILL_ALIASES) :
                       MatchingLines(SKILL_ALIASES[k].canonical, _lines(ev_text)) # <<>>}}

\* two skills were found and the one listed first matches later in the text
C10_Witness ==
    /\ pc = "extracted"
    /\ max_snippets_per_skill >= 1
    /\ \E i, j \in 1 .. Len(found) :
          /\ i < j
          /\ MatchingLines(found[i].skill, _lines(ev_text))[1]
                 > MatchingLines(found[j].skill, _lines(ev_text))[1]

(***************************************************************************)
(* Calls of _evidence_window on its own: at most MaxWindowLines lines out  *)
(* of WindowLines (two lines of HalfLineLen and HalfLineLen + 1 letters,   *)
(* so that two of them joined by " | " are 259, 260 or 261 characters      *)
(* long, and two short lines, one with a tab), every hit index from three  *)
(* before the list to one past it, every radius up to MaxRadius.           *)
(***************************************************************************)
HalfLineLen == 128
MaxWindowLines == 3
MaxRadius == 2

WindowLines ==
    { XLine(HalfLineLen), XLine(HalfLineLen + 1),
      <<117, 115, 101, 100, SP, 83, 81, 76>>,
      <<83, 81, 76, TAB, 97, 110, 100, SP, 65, 73>> }

InitWindow ==
    /\ pc = "start"
    /\ win_lines \in Lists(WindowLines, MaxWindowLines)
    /\ win_hit_index \in -3 .. MaxWindowLines
    /\ win_window \in 0 .. MaxRadius
    /\ win_snippet = None
    /\ IdleExceptWindow

\* win_snippet = _evidence_window(win_lines, win_hit_index, win_window)
EvidenceWindow ==
    /\ pc = "start"
    /\ win_snippet' = _evidence_window(win_lines, win_hit_index + 1, win_window)
    /\ pc' = "windowed"
    /\ UNCHANGED <<win_lines, win_hit_index, win_window, exceptWindow>>

NextWindow == EvidenceWindow

SpecWindow == InitWindow /\ [][NextWindow]_vars

EndsWith(s, suffix) ==
    /\ Len(s) >= Len(suffix)
    /\ SubSeq(s, Len(s) - Len(suffix) + 1, Len(s)) = suffix

(***************************************************************************)
(* C11: a snippet returned by _evidence_window is at most 263 characters   *)
(* long (260 plus the marker) whatever the lines, the hit index and the    *)
(* radius; a snippet of at most 260 characters carries no marker, a longer *)
(* one is 260 characters followed by the marker.                           *)
(***************************************************************************)
C11_SnippetBounded ==
    pc = "windowed" =>
        /\ Len(win_snippet) <= 263
        /\ Len(win_snippet) <= 260 => ~EndsWith(win_snippet, EllipsisMarker)
        /\ Len(win_snippet) > 260 =>
               /\ Len(win_snippet) = 263
               /\ EndsWith(win_snippet, EllipsisMarker)

\* a window of two long lines and a short one, cut at 260
C11_Witness ==
    /\ pc = "windowed"
    /\ Len(win_lines) = 3
    /\ win_hit_index = 1
    /\ Len(win_lines[1]) + Len(win_lines[2]) + Len(win_lines[3]) > 260
    /\ Len(win_snippet) = 263
    /\ EndsWith(win_snippet, EllipsisMarker)

\* s has the characters of sub somewhere in a row
Contains(s, sub) ==
    \E p \in 1 .. Len(s) - Len(sub) + 1 : SubSeq(s, p, p + Len(sub) - 1) = sub

\* the k-th snippet of a found skill belongs to the k-th line its pattern
\* matches; HitLine is the index of that line among the scanned lines
HitLine(i, k) == MatchingLines(found[i].skill, _lines(ev_text))[k]

\* a scanned line as a snippet shows it: runs of whitespace made one space
Shown(j) == _normalize_for_search(_lines(ev_text)[j])

\* the hit line between the line before it and the line after it
WholeWindow(h) ==
    (IF h > 1 THEN Shown(h - 1) \o <<SP, PIPE, SP>> ELSE <<>>)
        \o Shown(h)
        \o (IF h < Len(_lines(ev_text)) THEN <<SP, PIPE, SP>> \o Shown(h + 1) ELSE <<>>)

(***************************************************************************)
(* C12 as stated: whenever an alias matches a line, the snippet recorded   *)
(* for that hit contains the full matching line (its whitespace runs       *)
(* collapsed, as everywhere in a snippet).                                 *)
(***************************************************************************)
C12_SnippetHasHitLine ==
    pc = "extracted" =>
        \A i \in 1 .. Len(found) :
            \A k \in 1 .. Len(found[i].snippets) :
                Contains(found[i].snippets[k], Shown(HitLine(i, k)))

(***************************************************************************)
(* C12 as amended: the snippet recorded for a hit is the hit line between  *)
(* its neighbours, joined by " | ", when that window is at most 260        *)
(* characters long, and then it contains the full matching line; a longer  *)
(* window is cut to its first 260 characters and the marker, whatever      *)
(* becomes of the matching line.                                           *)
(***************************************************************************)
C12_HitLineUnlessCut ==
    pc = "extracted" =>
        \A i \in 1 .. Len(found) :
            \A k \in 1 .. Len(found[i].snippets) :
                LET whole == WholeWindow(HitLine(i, k))
                    snip == found[i].snippets[k]
                IN  IF Len(whole) <= 260
                    THEN snip = whole /\ Contains(snip, Shown(HitLine(i, k)))
                    ELSE snip = SubSeq(whole, 1, 260) \o EllipsisMarker

\* the Power BI line between two other lines, whole in its snippet
C12_Witness ==
    /\ pc = "extracted"
    /\ Len(_lines(ev_text)) = 3
    /\ \E i \in 1 .. Len(found) :
          /\ found[i].skill = "Power BI"
          /\ Len(found[i].snippets) = 1
          /\ HitLine(i, 1) = 2
          /\ Len(found[i].snippets[1]) <= 260
          /\ Contains(found[i].snippets[1], _lines(ev_text)[2])
          /\ Contains(found[i].snippets[1], _lines(ev_text)[1])
          /\ Contains(found[i].snippets[1], _lines(ev_text)[3])

(***************************************************************************)
(* core/next_move.py.  A skill is its name, as in the keys of              *)
(* SKILL_ACTIONS; a returned dict is a record.                             *)
(***************************************************************************)
SKILL_ACTIONS ==
    ("Power BI" :>
        [action |-> "Build one Power BI dashboard (1 page) using a public dataset and add it to your portfolio.",
         time |-> "45 minutes",
         why |-> "Power BI is common in analytics roles; adding a real dashboard closes a high-impact gap quickly."])
    @@ ("Tableau" :>
        [action |-> "Create one Tableau dashboard showing a trend over time and add a screenshot to your portfolio.",
         time |-> "40 minutes",
         why |-> "Dashboard proof is a frequent screening signal for analyst roles."])
    @@ ("Git" :>
        [action |-> "Create a GitHub repository for this project, push your code, and write a clean README.",
         time |-> "35 minutes",
         why |-> "Hiring teams value evidence of real projects, version control, and clear documentation."])

\* the dict returned for a skill that has a template
ActionFor(skill) ==
    [skill |-> skill,
     action |-> SKILL_ACTIONS[skill].action,
     time |-> SKILL_ACTIONS[skill].time,
     why |-> SKILL_ACTIONS[skill].why]

\* the dict returned when the loop ends without a return
FallbackMove ==
    [skill |-> "Evidence Strengthening",
     action |-> "Rewrite one resume bullet to include the tool used and a measurable impact (numbers) truthfully.",
     time |-> "30 minutes",
     why |-> "Strong evidence improves shortlisting even when you already have the skills."]

RECURSIVE decide_next_move_LastWins(_)
\* mutant: the loop goes on after a skill with a template and the last one wins
decide_next_move_LastWins(missing_skills) ==
    IF missing_skills = <<>> THEN FallbackMove
    ELSE LET n == Len(missing_skills)
             rest == decide_next_move_LastWins(SubSeq(missing_skills, 1, n - 1))
         IN  IF missing_skills[n] \in DOMAIN SKILL_ACTIONS
             THEN ActionFor(missing_skills[n])
             ELSE rest

\* mutant: only the first missing skill is looked up
decide_next_move_FirstOnly(missing_skills) ==
    IF missing_skills # <<>> /\ Head(missing_skills) \in DOMAIN SKILL_ACTIONS
    THEN ActionFor(Head(missing_skills))
    ELSE FallbackMove

RECURSIVE decide_next_move(_)
decide_next_move(missing_skills) ==
    IF missing_skills = <<>> THEN FallbackMove
    ELSE IF Head(missing_skills) \in DOMAIN SKILL_ACTIONS
         THEN ActionFor(Head(missing_skills))
         ELSE decide_next_move(Tail(missing_skills))

(***************************************************************************)
(* Calls of decide_next_move: every list of at most MaxMissing skills out  *)
(* of MoveSkills, the three skills with a template, one without, and one   *)
(* that differs from a key in case only.                                   *)
(***************************************************************************)
MaxMissing == 3
MoveSkills == {"Power BI", "Tableau", "Git", "SQL", "power bi"}

InitMove ==
    /\ pc = "start"
    /\ move_missing_skills \in Lists(MoveSkills, MaxMissing)
    /\ next_move = None
    /\ IdleExceptMove

\* next_move = decide_next_move(missing)
DecideNextMove ==
    /\ pc = "start"
    /\ next_move' = decide_next_move(move_missing_skills)
    /\ pc' = "decided"
    /\ UNCHANGED <<move_missing_skills, exceptMove>>

NextMove == DecideNextMove

SpecMove == InitMove /\ [][NextMove]_vars

\* the places of the missing skills that have an action template
Templated ==
    {i \in 1 .. Len(move_missing_skills) : move_missing_skills[i] \in {"Power BI", "Tableau", "Git"}}

(***************************************************************************)
(* C13: decide_next_move returns the action template of the first missing  *)
(* skill, in list order, that has one, with that skill in the skill field, *)
(* and nothing else of the list matters; for ["Power BI", "Git"] it is the *)
(* Power BI action.                                                        *)
(***************************************************************************)
C13_FirstTemplateWins ==
    pc = "decided" =>
        /\ Templated # {} =>
               \E i \in Templated :
                   /\ \A j \in Templated : i <= j
                   /\ next_move.skill = move_missing_skills[i]
                   /\ next_move.action = SKILL_ACTIONS[move_missing_skills[i]].action
                   /\ next_move.time = SKILL_ACTIONS[move_missing_skills[i]].time
                   /\ next_move.why = SKILL_ACTIONS[move_missing_skills[i]].why
        /\ move_missing_skills = <<"Power BI", "Git">> =>
               /\ next_move.skill = "Power BI"
               /\ next_move.time = "45 minutes"

\* a skill without a template first, then two with one: the earlier wins
C13_Witness ==
    /\ pc = "decided"
    /\ move_missing_skills = <<"SQL", "Git", "Power BI">>
    /\ next_move.skill = "Git"
    /\ next_move.time = "35 minutes"

(***************************************************************************)
(* C14: decide_next_move returns a dict with skill, action, time and why   *)
(* for every list; it is the fixed fallback, whose skill is "Evidence      *)
(* Strengthening", for the empty list and for a list none of whose skills  *)
(* has a template, and for no other list.                                  *)
(***************************************************************************)
C14_FallbackExactly ==
    pc = "decided" =>
        /\ DOMAIN next_move = {"skill", "action", "time", "why"}
        /\ \A f \in DOMAIN next_move : next_move[f] # ""
        /\ next_move.skill = "Evidence Strengthening" <=> Templated = {}
        /\ Templated = {} =>
               /\ next_move.time = "30 minutes"
               /\ next_move = FallbackMove

\* two missing skills, neither with a template (one is a key in lower case)
C14_Witness ==
    /\ pc = "decided"
    /\ move_missing_skills = <<"SQL", "power bi">>
    /\ next_move.skill = "Evidence Strengthening"

(***************************************************************************)
(* core/resume_health.py.  The tips are the literals of the source, their  *)
(* en dashes written as hyphens.                                           *)
(***************************************************************************)
TipMetrics == "Add measurable impact (numbers, percentages, scale) in 2-4 bullets."
TipProjects == "Add a Projects section with 1-2 strong, relevant projects."
TipSkills == "Add a clear Skills section grouped by category (Data, Cloud, Tools)."
TipExperience == "Add a Work Experience section with role, dates, and outcomes."
TipSolid == "Your resume structure looks solid. Strengthen evidence for key skills."

Digits == 48 .. 57
PERCENT == 37

\* sub in s
In(sub, s) ==
    \E p \in 0 .. Len(s) - Len(sub) : \A i \in 1 .. Len(sub) : s[p + i] = sub[i]

\* re.search(r"\b\d+%|\b\d+\b", t): digits at p .. q after a word boundary,
\* followed by "%" (first alternative) or by a word boundary (second)
SearchMetrics(t) ==
    \E p \in 1 .. Len(t) : \E q \in p .. Len(t) :
        /\ \A i \in p .. q : t[i] \in Digits
        /\ WordBoundary(t, p - 1)
        /\ \/ q < Len(t) /\ t[q + 1] = PERCENT
           \/ WordBoundary(t, q)

KwExperience == <<101, 120, 112, 101, 114, 105, 101, 110, 99, 101>>
KwWorkExperience == <<119, 111, 114, 107, 32, 101, 120, 112, 101, 114, 105, 101, 110, 99, 101>>
KwSkills == <<115, 107, 105, 108, 108, 115>>
KwProjects == <<112, 114, 111, 106, 101, 99, 116, 115>>

\* lines 23-41, from the four signals
HealthReport(has_metrics, has_experience, has_skills, has_projects, cap) ==
    LET score == (IF has_experience THEN 25 ELSE 0) + (IF has_skills THEN 25 ELSE 0)
                     + (IF has_projects THEN 25 ELSE 0) + (IF has_metrics THEN 25 ELSE 0)
        tips == (IF ~has_metrics THEN <<TipMetrics>> ELSE <<>>)
                    \o (IF ~has_projects THEN <<TipProjects>> ELSE <<>>)
                    \o (IF ~has_skills THEN <<TipSkills>> ELSE <<>>)
                    \o (IF ~has_experience THEN <<TipExperience>> ELSE <<>>)
    IN  [score |-> score,
         tips |-> IF tips # <<>> THEN SubSeq(tips, 1, Min(cap, Len(tips)))
                  ELSE <<TipSolid>>]

\* mutant: the keywords are looked up in t, not in t.lower()
resume_health_check_CaseSensitive(txt) ==
    LET t == IF txt = None THEN <<>> ELSE txt
    IN  HealthReport(SearchMetrics(t),
                     In(KwExperience, t) \/ In(KwWorkExperience, t),
                     In(KwSkills, t), In(KwProjects, t), 3)

\* mutant: the tips are not cut to three
resume_health_check_NoCap(txt) ==
    LET t == IF txt = None THEN <<>> ELSE txt
        t_lower == Lower(t)
    IN  HealthReport(SearchMetrics(t),
                     In(KwExperience, t_lower) \/ In(KwWorkExperience, t_lower),
                     In(KwSkills, t_lower), In(KwProjects, t_lower), 4)

resume_health_check(txt) ==
    LET t == IF txt = None THEN <<>> ELSE txt
        t_lower == Lower(t)
    IN  HealthReport(SearchMetrics(t),
                     In(KwExperience, t_lower) \/ In(KwWorkExperience, t_lower),
                     In(KwSkills, t_lower), In(KwProjects, t_lower), 3)

(***************************************************************************)
(* Calls of resume_health_check: None, and at most MaxHealthWords words of *)
(* HealthWords joined by spaces: "Experience", "SKILLS", "projects", "5%", *)
(* "12", "a1" (a digit glued to a letter) and "%".                         *)
(***************************************************************************)
MaxHealthWords == 4
HealthWords ==
    {<<69, 120, 112, 101, 114, 105, 101, 110, 99, 101>>,
     <<83, 75, 73, 76, 76, 83>>,
     <<112, 114, 111, 106, 101, 99, 116, 115>>,
     <<53, PERCENT>>, <<49, 50>>, <<97, 49>>, <<PERCENT>>}

InitHealth ==
    /\ pc = "start"
    /\ \/ health_text = None
       \/ \E ws \in Lists(HealthWords, MaxHealthWords) : health_text = Join(ws, <<SP>>)
    /\ health = None
    /\ IdleExceptHealth

\* health = resume_health_check(cleaned)
ResumeHealthCheck ==
    /\ pc = "start"
    /\ health' = resume_health_check(health_text)
    /\ pc' = "checked"
    /\ UNCHANGED <<health_text, exceptHealth>>

NextHealth == ResumeHealthCheck

SpecHealth == InitHealth /\ [][NextHealth]_vars

(***************************************************************************)
(* Vocabulary of the claims about the health report: the four signals,     *)
(* read off the text itself.                                               *)
(***************************************************************************)
HealthChars == IF health_text = None THEN <<>> ELSE health_text

\* the text holds the word somewhere, in any mix of upper and lower case
SaysWord(word) ==
    \E p \in 1 .. Len(HealthChars) - Len(word) + 1 :
        Lower(SubSeq(HealthChars, p, p + Len(word) - 1)) = word

\* the text holds a number standing on its own: a longest run of digits
\* with no letter, digit or underscore next to it (a "%" may follow)
ShowsNumber ==
    \E p \in 1 .. Len(HealthChars) :
        /\ HealthChars[p] \in Digits
        /\ p = 1 \/ HealthChars[p - 1] \notin WordChars
        /\ \E q \in p .. Len(HealthChars) :
              /\ \A i \in p .. q : HealthChars[i] \in Digits
              /\ q = Len(HealthChars) \/ HealthChars[q + 1] \notin WordChars

\* the signals that are missing, in the priority order of the tips
MissingSignals ==
    (IF ~ShowsNumber THEN <<"metrics">> ELSE <<>>)
        \o (IF ~SaysWord(KwProjects) THEN <<"projects">> ELSE <<>>)
        \o (IF ~SaysWord(KwSkills) THEN <<"skills">> ELSE <<>>)
        \o (IF ~SaysWord(KwExperience) THEN <<"experience">> ELSE <<>>)

TipOf(signal) ==
    CASE signal = "metrics" -> TipMetrics
      [] signal = "projects" -> TipProjects
      [] signal = "skills" -> TipSkills
      [] signal = "experience" -> TipExperience

(***************************************************************************)
(* C15: the health score is 25 times the number of signals the text        *)
(* satisfies among four (a number or percentage, and the keywords          *)
(* "experience", "skills" and "projects" in any case), so one of 0, 25,    *)
(* 50, 75, 100; an empty or null text scores 0.                            *)
(***************************************************************************)
C15_ScoreCountsSignals ==
    pc = "checked" =>
        /\ health.score = 25 * (4 - Len(MissingSignals))
        /\ health.score \in {0, 25, 50, 75, 100}
        /\ (health_text = None \/ health_text = <<>>) => health.score = 0

\* "Experience" and "SKILLS" in capitals and a percentage, no projects
C15_Witness ==
    /\ pc = "checked"
    /\ Contains(HealthChars, <<69, 120, 112, 101, 114, 105, 101, 110, 99, 101>>)
    /\ Contains(HealthChars, <<83, 75, 73, 76, 76, 83>>)
    /\ Contains(HealthChars, <<53, PERCENT>>)
    /\ ~SaysWord(KwProjects)
    /\ health.score = 75

(***************************************************************************)
(* C16: the tips are the fixed tips of the missing signals in the order    *)
(* quantified impact, projects, skills, experience, cut to the first       *)
(* three; with no signal missing there is the one positive tip.  So the    *)
(* list is never empty, and holds min(3, missing) tips or one.  A text     *)
(* with experience and skills but no number and no projects scores 50 and  *)
(* gets the quantified-impact tip, then the projects tip.                  *)
(***************************************************************************)
C16_TipsInPriorityOrder ==
    pc = "checked" =>
        LET n == Len(MissingSignals)
        IN  /\ health.tips # <<>>
            /\ n = 0 => health.tips = <<TipSolid>>
            /\ n > 0 =>
                   /\ Len(health.tips) = Min(3, n)
                   /\ \A k \in 1 .. Len(health.tips) :
                          health.tips[k] = TipOf(MissingSignals[k])
            /\ MissingSignals = <<"metrics", "projects">> =>
                   /\ health.score = 50
                   /\ health.tips = <<TipMetrics, TipProjects>>

\* experience and skills, no number ("a1" is none), no projects
C16_Witness ==
    /\ pc = "checked"
    /\ SaysWord(KwExperience)
    /\ SaysWord(KwSkills)
    /\ Contains(HealthChars, <<97, 49>>)
    /\ health.score = 50
    /\ health.tips = <<TipMetrics, TipProjects>>

(***************************************************************************)
(* Concurrent analysis calls.  NumThreads threads each make one call of    *)
(* extract_skills_with_evidence, compute_match, decide_next_move or        *)
(* resume_health_check.  The module-level table _ALIAS_PATTERNS is the     *)
(* variable alias_patterns; everything else a call works on is local to    *)
(* it (lines, found, hits) and kept in its record.  A call of              *)
(* extract_skills_with_evidence reads the table once per iteration of its  *)
(* outer loop, and the threads interleave between iterations; the other    *)
(* three functions never read it and take one step.                        *)
(***************************************************************************)
NumThreads == 2
Threads == 1 .. NumThreads

\* mutant: an iteration consumes the table entry it has read
TableAfterIteration_Consumed(table, k) ==
    [table EXCEPT ![k].pattern = [never |-> TRUE, alternatives |-> <<>>]]

\* the table after the k-th iteration of the outer loop (lines 92-100): the
\* loop only reads canonical and pattern, and pattern.search writes nothing
TableAfterIteration(table, k) == table

\* found after the k-th iteration of the outer loop, from the entry of the
\* table as it is read at that moment
FoundAfterIteration(table, k, lines, max_snippets, acc) ==
    LET hits == ScanLines(table[k].pattern, lines, 1, <<>>, max_snippets)
    IN  IF hits # <<>>
        THEN Append(acc, [skill |-> table[k].canonical, snippets |-> hits])
        ELSE acc

Call(fn, t, n, missing_skills, resume, job) ==
    [fn |-> fn, text |-> t, max_snippets |-> n, missing_skills |-> missing_skills,
     resume_skills |-> resume, job_skills |-> job,
     k |-> 0, found |-> <<>>, result |-> None, done |-> FALSE]

ConcurrentTexts ==
    {Join(<<<<103, 105, 116, 44, 32, 109, 108>>, <<117, 115, 101, 100, 32, 83, 81, 76>>>>, <<LF>>), <<83, 81, 76, 9, 97, 110, 100, 32, 65, 73>>, <<>>}

CallOptions ==
    {Call("extract_skills_with_evidence", t, n, <<>>, {}, {}) :
        t \in ConcurrentTexts, n \in 1 .. MaxSnippetsArg}
    \cup {Call("resume_health_check", <<69, 120, 112, 101, 114, 105, 101, 110, 99, 101, 32, 53, 37>>, 0, <<>>, {}, {}),
          Call("decide_next_move", <<>>, 0, <<"SQL", "Git">>, {}, {}),
          Call("compute_match", <<>>, 0, <<>>, {<<83, 81, 76>>}, {<<83, 81, 76>>, <<71, 105, 116>>})}

InitShared ==
    /\ pc = "start"
    /\ alias_patterns = _ALIAS_PATTERNS
    /\ calls \in [Threads -> CallOptions]
    /\ IdleExceptShared

\* lines 85-90: an empty text returns {} at once, otherwise the loop starts
ExtractEnter(th) ==
    /\ calls[th].fn = "extract_skills_with_evidence"
    /\ ~calls[th].done
    /\ calls[th].k = 0
    /\ calls' = IF calls[th].text = <<>>
                THEN [calls EXCEPT ![th].result = <<>>, ![th].done = TRUE]
                ELSE [calls EXCEPT ![th].k = 1]
    /\ UNCHANGED <<pc, alias_patterns, exceptShared>>

\* lines 92-100: one iteration of the loop over _ALIAS_PATTERNS.items()
ExtractIteration(th) ==
    /\ calls[th].fn = "extract_skills_with_evidence"
    /\ ~calls[th].done
    /\ calls[th].k \in 1 .. Len(alias_patterns)
    /\ calls' = [calls EXCEPT
                    ![th].found = FoundAfterIteration(alias_patterns, calls[th].k,
                                      _lines(calls[th].text), calls[th].max_snippets,
                                      calls[th].found),
                    ![th].k = calls[th].k + 1]
    /\ alias_patterns' = TableAfterIteration(alias_patterns, calls[th].k)
    /\ UNCHANGED <<pc, exceptShared>>

\* line 102: return found
ExtractReturn(th) ==
    /\ calls[th].fn = "extract_skills_with_evidence"
    /\ ~calls[th].done
    /\ calls[th].k > Len(alias_patterns)
    /\ calls' = [calls EXCEPT ![th].result = calls[th].found, ![th].done = TRUE]
    /\ UNCHANGED <<pc, alias_patterns, exceptShared>>

ComputeMatchCall(th) ==
    /\ calls[th].fn = "compute_match"
    /\ ~calls[th].done
    /\ calls' = [calls EXCEPT
                    ![th].result = compute_match(calls[th].resume_skills, calls[th].job_skills),
                    ![th].done = TRUE]
    /\ UNCHANGED <<pc, alias_patterns, exceptShared>>

DecideNextMoveCall(th) ==
    /\ calls[th].fn = "decide_next_move"
    /\ ~calls[th].done
    /\ calls' = [calls EXCEPT
                    ![th].result = decide_next_move(calls[th].missing_skills),
                    ![th].done = TRUE]
    /\ UNCHANGED <<pc, alias_patterns, exceptShared>>

ResumeHealthCheckCall(th) ==
    /\ calls[th].fn = "resume_health_check"
    /\ ~calls[th].done
    /\ calls' = [calls EXCEPT
                    ![th].result = resume_health_check(calls[th].text),
                    ![th].done = TRUE]
    /\ UNCHANGED <<pc, alias_patterns, exceptShared>>

NextShared ==
    \E th \in Threads :
        \/ ExtractEnter(th)
        \/ ExtractIteration(th)
        \/ ExtractReturn(th)
        \/ ComputeMatchCall(th)
        \/ DecideNextMoveCall(th)
        \/ ResumeHealthCheckCall(th)

SpecShared == InitShared /\ [][NextShared]_vars

\* what the call of a thread returns when it runs alone, on the table as
\* built at import
Alone(c) ==
    CASE c.fn = "extract_skills_with_evidence" ->
             extract_skills_with_evidence(c.text, c.max_snippets)
      [] c.fn = "compute_match" -> compute_match(c.resume_skills, c.job_skills)
      [] c.fn = "decide_next_move" -> decide_next_move(c.missing_skills)
      [] c.fn = "resume_health_check" -> resume_health_check(c.text)

(***************************************************************************)
(* C17: under every interleaving of concurrent calls the alias-pattern     *)
(* table stays as it was built, no call touches the arguments of another,  *)
(* and a call that has returned has returned what it returns alone.        *)
(***************************************************************************)
C17_SharedTableReadOnly ==
    calls # <<>> =>
        /\ alias_patterns = _ALIAS_PATTERNS
        /\ \A th \in Threads :
               /\ [calls[th] EXCEPT !.k = 0, !.found = <<>>, !.result = None,
                                    !.done = FALSE] \in CallOptions
               /\ calls[th].done => calls[th].result = Alone(calls[th])

\* one extraction has returned its skills while another, on another text,
\* is half way through the table with a skill found
C17_Witness ==
    /\ calls # <<>>
    /\ \E a, b \in Threads :
          /\ calls[a].fn = "extract_skills_with_evidence"
          /\ calls[b].fn = "extract_skills_with_evidence"
          /\ calls[a].text # calls[b].text
          /\ calls[a].done
          /\ Len(calls[a].result) >= 2
          /\ ~calls[b].done
          /\ calls[b].k = 3
          /\ calls[b].found # <<>>

(***************************************************************************)
(* core/parsing.py and the resume pipeline of app.py.  The outcome of a    *)
(* call is a record: raised is the exception that left the call ("" when   *)
(* it returned) and value the tuple returned.  The document is what the    *)
(* PDF or DOCX library finds in the bytes: whether it can read them (it   *)
(* raises when not) and the texts of the pages or paragraphs.              *)
(***************************************************************************)
Returned(value) == [raised |-> "", value |-> value]
Raised(exception) == [raised |-> exception, value |-> None]

\* fitz.open raises on bytes that are no PDF; the page texts are joined
extract_text_from_pdf(document) ==
    IF ~document.readable THEN Raised("library error")
    ELSE Returned(Strip(Join(document.parts, <<LF>>)))

\* Document(buffer) raises on bytes that are no DOCX; blank paragraphs are
\* left out
extract_text_from_docx(document) ==
    IF ~document.readable THEN Raised("library error")
    ELSE Returned(Strip(Join(SelectSeq(document.parts, LAMBDA par : Strip(par) # <<>>),
                             <<LF>>)))

DotPdf == <<46, 112, 100, 102>>
DotDocx == <<46, 100, 111, 99, 120>>

\* parse_resume: a pair (file_type, text), or an exception
parse_resume(filename, document) ==
    LET name == Lower(filename)
    IN  IF EndsWith(name, DotPdf)
        THEN LET t == extract_text_from_pdf(document)
             IN  IF t.raised # "" THEN t ELSE Returned(<<"pdf", t.value>>)
        ELSE IF EndsWith(name, DotDocx)
        THEN LET t == extract_text_from_docx(document)
             IN  IF t.raised # "" THEN t ELSE Returned(<<"docx", t.value>>)
        ELSE Raised("ValueError: Unsupported file format. Please upload PDF or DOCX.")

\* the truth value of a str or None
Truthy(v) == v # None /\ v # <<>> /\ v # ""

\* _cached_resume_pipeline: file_type, raw, perr = parse_resume(...) takes
\* a tuple of three values and raises ValueError on any other
_cached_resume_pipeline(filename, document) ==
    LET parsed == parse_resume(filename, document)
    IN  IF parsed.raised # "" THEN parsed
        ELSE IF Len(parsed.value) # 3
        THEN Raised("ValueError: not enough values to unpack (expected 3, got 2)")
        ELSE LET file_type == parsed.value[1]
                 raw == parsed.value[2]
                 perr == parsed.value[3]
             IN  IF Truthy(perr) \/ ~Truthy(raw)
                 THEN Returned(<<file_type, <<>>, <<>>,
                                 IF Truthy(perr) THEN perr
                                 ELSE "Could not extract text from resume.">>)
                 ELSE Returned(<<file_type, clean_text(raw),
                                 extract_skills_with_evidence(clean_text(raw), 2),
                                 None>>)

(***************************************************************************)
(* Calls of the pipeline: the file names "cv.pdf", "CV.PDF", "cv.docx",    *)
(* "cv.txt" and "", and a document of at most MaxPages pages or paragraphs *)
(* out of PageTexts ("", " ", "used SQL", "git, ml" and a line break), or  *)
(* one the library cannot open.                                            *)
(***************************************************************************)
MaxPages == 2
FileNames ==
    {<<99, 118, 46, 112, 100, 102>>, <<67, 86, 46, 80, 68, 70>>,
     <<99, 118, 46, 100, 111, 99, 120>>, <<99, 118, 46, 116, 120, 116>>, <<>>}
PageTexts ==
    {<<>>, <<SP>>, <<117, 115, 101, 100, 32, 83, 81, 76>>, <<103, 105, 116, 44, 32, 109, 108, 10>>}

InitPipeline ==
    /\ pc = "start"
    /\ pipe_filename \in FileNames
    /\ pipe_document \in
           {[readable |-> TRUE, parts |-> ps] : ps \in Lists(PageTexts, MaxPages)}
               \cup {[readable |-> FALSE, parts |-> <<>>]}
    /\ pipeline = None
    /\ IdleExceptPipeline

\* _cached_resume_pipeline(uploaded.name, file_hash, file_bytes)
CachedResumePipeline ==
    /\ pc = "start"
    /\ pipeline' = _cached_resume_pipeline(pipe_filename, pipe_document)
    /\ pc' = "piped"
    /\ UNCHANGED <<pipe_filename, pipe_document, exceptPipeline>>

NextPipeline == CachedResumePipeline

SpecPipeline == InitPipeline /\ [][NextPipeline]_vars

(***************************************************************************)
(* C18: the resume pipeline never raises, whatever the parser does: it     *)
(* returns (file_type, "", {}, message) when parsing fails or finds no     *)
(* text, unsupported file types included, and (file_type, cleaned text,    *)
(* evidence, None) otherwise.                                              *)
(***************************************************************************)
C18_PipelineNeverRaises ==
    pc = "piped" =>
        /\ pipeline.raised = ""
        /\ Len(pipeline.value) = 4
        /\ \/ /\ pipeline.value[2] = <<>>
              /\ pipeline.value[3] = <<>>
              /\ pipeline.value[4] \notin {None, ""}
           \/ /\ pipeline.value[2] # <<>>
              /\ pipeline.value[4] = None

(***************************************************************************)
(* core/ai_engine.py.  An optional value is a sequence: Nothing for None,  *)
(* Some(v) for v.  The content of the chat response is a list of tokens,   *)
(* each a record with its kind: "space" (whitespace), "words" (commentary  *)
(* without braces), "fence" (``` or ```json), or a piece of JSON text:     *)
(* "object" (with its keys), "array", or "broken" for an object cut short. *)
(* A parsed dict is its set of keys.                                       *)
(***************************************************************************)
Nothing == <<>>
Some(v) == <<v>>

IsJson(tok) == tok.kind \notin {"space", "words", "fence"}

\* text.strip()
StripTokens(toks) ==
    LET keep == {i \in 1 .. Len(toks) : toks[i].kind # "space"}
    IN  IF keep = {} THEN <<>>
        ELSE SubSeq(toks, CHOOSE i \in keep : \A j \in keep : i <= j,
                    CHOOSE i \in keep : \A j \in keep : i >= j)

\* re.sub(r"^```(?:json)?\s*", "", t): a fence at the very start goes, with
\* the whitespace after it
SubOpeningFence(toks) ==
    IF toks # <<>> /\ Head(toks).kind = "fence"
    THEN LET rest == Tail(toks)
             first == {i \in 1 .. Len(rest) : rest[i].kind # "space"}
         IN  IF first = {} THEN <<>>
             ELSE SubSeq(rest, CHOOSE i \in first : \A j \in first : i <= j, Len(rest))
    ELSE toks

\* re.sub(r"\s*```$", "", t): a fence at the very end goes, with the
\* whitespace before it
SubClosingFence(toks) ==
    IF toks # <<>> /\ toks[Len(toks)].kind = "fence"
    THEN LET rest == SubSeq(toks, 1, Len(toks) - 1)
             last == {i \in 1 .. Len(rest) : rest[i].kind # "space"}
         IN  IF last = {} THEN <<>>
             ELSE SubSeq(rest, 1, CHOOSE i \in last : \A j \in last : i >= j)
    ELSE toks

\* json.loads followed by the isinstance test: the text must be one JSON
\* value and nothing else (json.loads tolerates whitespace around it); a
\* dict is returned, any other value gives None; parsed is FALSE when
\* json.loads raises
LoadsDict(toks) ==
    LET t == StripTokens(toks)
    IN  IF Len(t) = 1 /\ IsJson(t[1]) /\ t[1].kind # "broken"
        THEN [parsed |-> TRUE,
              obj |-> IF t[1].kind = "object" THEN Some(t[1].keys) ELSE Nothing]
        ELSE [parsed |-> FALSE, obj |-> Nothing]

\* re.search(r"\{.*\}", t, flags=re.DOTALL): from the first "{" to the last
\* "}"; only objects have braces, a broken one has lost its closing brace
SearchBraces(toks) ==
    LET open == {i \in 1 .. Len(toks) : IsJson(toks[i]) /\ toks[i].kind \in {"object", "broken"}}
        close == {i \in 1 .. Len(toks) : IsJson(toks[i]) /\ toks[i].kind = "object"}
    IN  IF \E i \in open : \E j \in close : i <= j
        THEN LET i == CHOOSE i \in open : \A k \in open : i <= k
                 j == CHOOSE j \in close : \A k \in close : j >= k
             IN  IF i = j THEN Some(<<toks[i]>>)
                 ELSE Some(<<[kind |-> "broken", keys |-> {}]>>)
        ELSE Nothing

_extract_json_object(toks) ==
    IF toks = <<>> THEN Nothing
    ELSE LET t == SubClosingFence(SubOpeningFence(StripTokens(toks)))
             direct == LoadsDict(t)
             m == SearchBraces(t)
         IN  IF direct.parsed THEN direct.obj
             ELSE IF m = Nothing THEN Nothing
             ELSE LoadsDict(m[1]).obj

\* _call_chat: (text, error)
_call_chat(key, raises, content) ==
    IF ~key
    THEN [text |-> Nothing,
          error |-> Some("Missing OPENAI_API_KEY. Add it to your environment.")]
    ELSE IF raises
    THEN [text |-> Nothing, error |-> Some("AI call failed")]
    ELSE LET t == StripTokens(content)
         IN  IF t = <<>>
             THEN [text |-> Nothing, error |-> Some("OpenAI returned empty content.")]
             ELSE [text |-> Some(t), error |-> Nothing]

RequiredKeys == {"role_reality", "blocker", "plan"}

\* mutant: the parsed object is returned without the test for its keys
ai_insights_bundle_Unvalidated(key, raises, content) ==
    LET chat == _call_chat(key, raises, content)
        data == _extract_json_object(chat.text[1])
    IN  IF chat.error # Nothing THEN [data |-> Nothing, error |-> chat.error]
        ELSE IF data = Nothing \/ data[1] = {}
        THEN [data |-> Nothing, error |-> Some("AI output was not valid JSON. Try again.")]
        ELSE [data |-> data, error |-> Nothing]

\* ai_insights_bundle from line 131 on; the lines before build the prompt,
\* with the one step that can fail (listing context_skills) in a try
ai_insights_bundle(key, raises, content) ==
    LET chat == _call_chat(key, raises, content)
        data == _extract_json_object(chat.text[1])
    IN  IF chat.error # Nothing THEN [data |-> Nothing, error |-> chat.error]
        ELSE IF data = Nothing \/ data[1] = {}
        THEN [data |-> Nothing, error |-> Some("AI output was not valid JSON. Try again.")]
        ELSE IF ~(RequiredKeys \subseteq data[1])
        THEN [data |-> Nothing,
              error |-> Some("AI output JSON missing required keys. Try again.")]
        ELSE [data |-> data, error |-> Nothing]

(***************************************************************************)
(* Calls of ai_insights_bundle: with and without an API key, with a call   *)
(* that raises or returns, and every content of at most MaxTokens tokens   *)
(* out of ContentTokens: whitespace, commentary, a fence, an array, an     *)
(* object cut short, and the objects with any of the three required keys   *)
(* (none, for the empty object).                                           *)
(***************************************************************************)
MaxTokens == 3
Token(kind) == [kind |-> kind, keys |-> {}]
ContentTokens ==
    {Token("space"), Token("words"), Token("fence"), Token("array"), Token("broken")}
        \cup {[kind |-> "object", keys |-> ks] : ks \in SUBSET RequiredKeys}

InitAi ==
    /\ pc = "start"
    /\ has_key \in BOOLEAN
    /\ chat_raises \in BOOLEAN
    /\ chat_content \in Lists(ContentTokens, MaxTokens)
    /\ insights = [data |-> Nothing, error |-> Nothing]
    /\ IdleExceptAi

\* bundle, err = ai_insights_bundle(role, focus_skill, context_skills, mode)
AiInsightsBundle ==
    /\ pc = "start"
    /\ insights' = ai_insights_bundle(has_key, chat_raises, chat_content)
    /\ pc' = "answered"
    /\ UNCHANGED <<has_key, chat_raises, chat_content, exceptAi>>

NextAi == AiInsightsBundle

SpecAi == InitAi /\ [][NextAi]_vars

(***************************************************************************)
(* C19: ai_insights_bundle returns a pair (data, error) for every outcome  *)
(* of the AI call (no key, a failing call, empty content, output that is   *)
(* not JSON or lacks keys): exactly one of the two is not None, and data,  *)
(* when not None, has the keys role_reality, blocker and plan.             *)
(***************************************************************************)
C19_DataXorError ==
    pc = "answered" =>
        /\ DOMAIN insights = {"data", "error"}
        /\ (insights.data = <<>>) # (insights.error = <<>>)
        /\ insights.data # <<>> =>
               {"role_reality", "blocker", "plan"} \subseteq insights.data[1]
        /\ (~has_key \/ chat_raises) => insights.error # <<>>

\* a fenced object with the three keys is returned as data
C19_Witness ==
    /\ pc = "answered"
    /\ Len(chat_content) = 3
    /\ chat_content[1].kind = "fence"
    /\ chat_content[3].kind = "fence"
    /\ insights.data = <<{"role_reality", "blocker", "plan"}>>
    /\ insights.error = <<>>

(***************************************************************************)
(* The account of the signed-in user and the Run analysis button           *)
(* (core/user_store.py, core/config.py, render_analyze, render_sidebar     *)
(* and render_map of app.py).  The row of the users table outlives the     *)
(* process, so a run starts from any counter value up to MaxRuns and       *)
(* MaxAiRuns; months are counted from 0 up to MaxMonths.                   *)
(***************************************************************************)
FREE_RUN_LIMIT_PER_PERIOD == 3
AI_RUN_LIMIT_PRO_PER_PERIOD == 25
MaxRuns == 4
MaxAiRuns == 1
MaxMonths == 2

\* _reset_if_new_period forgetting the counter of free runs
_reset_if_new_period_KeepFree(u, month) ==
    IF u.period_start # month
    THEN [u EXCEPT !.period_start = month, !.ai_runs_used = 0]
    ELSE u

\* _reset_if_new_period
_reset_if_new_period(u, month) ==
    IF u.period_start # month
    THEN [u EXCEPT !.period_start = month, !.free_runs_used = 0, !.ai_runs_used = 0]
    ELSE u

\* increment_free_run
increment_free_run(u, month) ==
    LET r == _reset_if_new_period(u, month)
    IN  [r EXCEPT !.free_runs_used = r.free_runs_used + 1]

\* increment_ai_run
increment_ai_run(u, month) ==
    LET r == _reset_if_new_period(u, month)
    IN  [r EXCEPT !.ai_runs_used = r.ai_runs_used + 1]

\* set_user_pro(email, True)
set_user_pro(u, month) == [_reset_if_new_period(u, month) EXCEPT !.is_pro = 1]

\* the test of line 627: the press is answered with the warning
FreeLimitReached(is_vip, u) ==
    ~is_vip /\ u.free_runs_used >= FREE_RUN_LIMIT_PER_PERIOD

InitAccount ==
    /\ pc = "start"
    /\ vip \in BOOLEAN
    /\ user \in [period_start : {0}, free_runs_used : 0 .. MaxRuns,
                 ai_runs_used : 0 .. MaxAiRuns, is_pro : {0, 1}]
    /\ now_period = 0
    /\ run_outcome = "none"
    /\ IdleExceptAccount

\* render_analyze with Run analysis pressed on an uploaded PDF or DOCX: the
\* warning when the limit is reached; otherwise the resume pipeline, whose
\* exception ends the run, whose error stops it, and after which the run
\* is counted
RunAnalysis ==
    \E filename \in {<<99, 118, 46, 112, 100, 102>>, <<99, 118, 46, 100, 111, 99, 120>>} :
    \E document \in {[readable |-> TRUE, parts |-> ps] : ps \in Lists(PageTexts, 1)}
                        \cup {[readable |-> FALSE, parts |-> <<>>]} :
        LET u == _reset_if_new_period(user, now_period)
            piped == _cached_resume_pipeline(filename, document)
        IN  /\ IF FreeLimitReached(vip, u)
               THEN user' = u /\ run_outcome' = "blocked"
               ELSE IF piped.raised # ""
               THEN user' = u /\ run_outcome' = "raised"
               ELSE IF Truthy(piped.value[4]) \/ ~Truthy(piped.value[2])
               THEN user' = u /\ run_outcome' = "stopped"
               ELSE /\ u.free_runs_used < MaxRuns
                    /\ user' = increment_free_run(u, now_period)
                    /\ run_outcome' = "analysed"
            /\ UNCHANGED <<pc, vip, now_period, exceptAccount>>

\* render_sidebar: Unlock Pro with the right access code
UnlockPro ==
    /\ _reset_if_new_period(user, now_period).is_pro = 0
    /\ user' = set_user_pro(user, now_period)
    /\ run_outcome' = "none"
    /\ UNCHANGED <<pc, vip, now_period, exceptAccount>>

\* render_map with Generate strategy pressed: the button is there for Pro
\* accounts below the AI limit; a bundle without error is counted
GenerateStrategy ==
    \E key, raises \in BOOLEAN : \E content \in Lists(ContentTokens, 1) :
        LET u == _reset_if_new_period(user, now_period)
            bundle == ai_insights_bundle(key, raises, content)
        IN  /\ u.is_pro = 1
            /\ u.ai_runs_used < AI_RUN_LIMIT_PRO_PER_PERIOD
            /\ IF bundle.error # Nothing
               THEN user' = u
               ELSE /\ u.ai_runs_used < MaxAiRuns
                    /\ user' = increment_ai_run(u, now_period)
            /\ run_outcome' = "none"
            /\ UNCHANGED <<pc, vip, now_period, exceptAccount>>

\* the calendar month changes
MonthPasses ==
    /\ now_period < MaxMonths
    /\ now_period' = now_period + 1
    /\ run_outcome' = "none"
    /\ UNCHANGED <<pc, vip, user, exceptAccount>>

NextAccount == RunAnalysis \/ UnlockPro \/ GenerateStrategy \/ MonthPasses

SpecAccount == InitAccount /\ [][NextAccount]_vars

CountersIn(u, month) ==
    IF u.period_start # month
    THEN [free_runs_used |-> 0, ai_runs_used |-> 0]
    ELSE [free_runs_used |-> u.free_runs_used, ai_runs_used |-> u.ai_runs_used]

(***************************************************************************)
(* C23: monthly reset of the usage counters: every step that loads or      *)
(* increments the row of the account in a month other than its stored      *)
(* period_start first sets both counters to 0 and period_start to the      *)
(* current month, and stores that; so the row it leaves has the current    *)
(* period and counters of at most 1 (the increment of the step itself),    *)
(* while a row of the current period keeps its counters but for that       *)
(* increment, and is left exactly as it was by the load alone.             *)
(***************************************************************************)
C23_MonthlyReset ==
    [][now_period' = now_period =>
           LET loaded == CountersIn(user, now_period)
           IN  /\ user'.period_start = now_period
               /\ user'.free_runs_used \in
                      {loaded.free_runs_used, loaded.free_runs_used + 1}
               /\ user'.ai_runs_used \in
                      {loaded.ai_runs_used, loaded.ai_runs_used + 1}
               /\ user'.free_runs_used + user'.ai_runs_used <=
                      loaded.free_runs_used + loaded.ai_runs_used + 1
               /\ (run_outcome' \in {"blocked", "raised", "stopped"}
                       /\ user.period_start = now_period) => user' = user]_vars

\* a strategy counted after the month has changed: the row is of the
\* current month and holds 0 free runs and 1 AI run
C23_Witness ==
    /\ now_period = MaxMonths
    /\ user.period_start = now_period
    /\ user.free_runs_used = 0
    /\ user.ai_runs_used = 1

(***************************************************************************)
(* The browser session (core/session.py and the writes of app.py to        *)
(* st.session_state).  The upload path that stores an analysis ends in the *)
(* exception of _cached_resume_pipeline, so a session is taken as a script *)
(* run may find it: signed in or not, with or without the analysis that    *)
(* line 653 of app.py stores.                                              *)
(***************************************************************************)
Emails == {"ann@x.io", "bob@x.io"}
ENABLE_PAYWALL == TRUE

\* sign_in(email, provider) followed by the writes of render_auth_page
sign_in(s, email, provider, pro) ==
    [s EXCEPT !.authed_email = email, !.auth_provider = provider,
              !.is_pro = pro, !.view = "Analyze"]

\* sign_out
sign_out(s) ==
    [s EXCEPT !.authed_email = "", !.auth_provider = "", !.is_pro = FALSE,
              !.analysis = "", !.ai_location_strategy = ""]

\* clear_analysis
clear_analysis(s) == [s EXCEPT !.analysis = "", !.ai_location_strategy = ""]

\* is_authed
is_authed(s) == s.authed_email # ""

\* monetization.require_pro_or_preview
require_pro_or_preview(s) == ~ENABLE_PAYWALL \/ s.is_pro

InitSession ==
    /\ pc = "start"
    /\ pro_accounts \in SUBSET Emails
    /\ \E email \in Emails \cup {""} : \E stored \in {"", email} :
           session = IF email = ""
                     THEN init_session
                     ELSE [sign_in(init_session, email, "email", email \in pro_accounts)
                               EXCEPT !.analysis = stored]
    /\ IdleExceptSession

\* render_auth_page: Continue with a valid email, or the Google callback
SignIn ==
    \E email \in Emails : \E provider \in {"email", "google"} :
        /\ ~is_authed(session)
        /\ session' = sign_in(session, email, provider, email \in pro_accounts)
        /\ UNCHANGED <<pc, pro_accounts, exceptSession>>

\* render_sidebar: the Sign out button
SignOut ==
    /\ is_authed(session)
    /\ session' = sign_out(session)
    /\ UNCHANGED <<pc, pro_accounts, exceptSession>>

\* the theme radio of render_auth_page and render_sidebar
SetTheme ==
    \E theme \in {"dark", "light"} :
        /\ theme # session.theme
        /\ session' = [session EXCEPT !.theme = theme]
        /\ UNCHANGED <<pc, pro_accounts, exceptSession>>

\* monetization.top_nav, shown by render_sidebar
TopNav ==
    \E chosen \in {"Analyze", "Map", "Pricing", "Changelog"} :
        /\ is_authed(session)
        /\ chosen # session.view
        /\ session' = [session EXCEPT !.view = chosen]
        /\ UNCHANGED <<pc, pro_accounts, exceptSession>>

\* render_analyze: Clear and run again, shown with a stored analysis
ClearAndRunAgain ==
    /\ is_authed(session)
    /\ session.view = "Analyze"
    /\ session.analysis # ""
    /\ session' = clear_analysis(session)
    /\ UNCHANGED <<pc, pro_accounts, exceptSession>>

\* _render_pro_ai: Run Pro AI Insights, shown under a stored analysis to an
\* account that is allowed; a bundle without error is stored
RunProAi ==
    \E key, raises \in BOOLEAN : \E content \in Lists(ContentTokens, 1) :
        LET bundle == ai_insights_bundle(key, raises, content)
        IN  /\ is_authed(session)
            /\ session.view = "Analyze"
            /\ session.analysis # ""
            /\ require_pro_or_preview(session)
            /\ bundle.error = Nothing
            /\ session' = [session EXCEPT !.pro_ai_bundle = session.authed_email]
            /\ UNCHANGED <<pc, pro_accounts, exceptSession>>

\* render_map: Generate strategy; a bundle without error is stored
GenerateLocationStrategy ==
    \E key, raises \in BOOLEAN : \E content \in Lists(ContentTokens, 1) :
        LET bundle == ai_insights_bundle(key, raises, content)
        IN  /\ is_authed(session)
            /\ session.view = "Map"
            /\ require_pro_or_preview(session)
            /\ bundle.error = Nothing
            /\ session' = [session EXCEPT !.ai_location_strategy = session.authed_email]
            /\ UNCHANGED <<pc, pro_accounts, exceptSession>>

NextSession ==
    \/ SignIn
    \/ SignOut
    \/ SetTheme
    \/ TopNav
    \/ ClearAndRunAgain
    \/ RunProAi
    \/ GenerateLocationStrategy

SpecSession == InitSession /\ [][NextSession]_vars

HISTORY_LIMIT == 30
MaxDays == 3
MaxStreak == 2

\* date.isoformat
isoformat(day) == [kind |-> "iso", day |-> day]

\* date.fromisoformat, ValueError standing for itself
fromisoformat(date_string) ==
    IF date_string.kind = "iso" THEN Returned(date_string.day)
    ELSE Raised("ValueError")

\* mark_done without the test for a task already done today
mark_done_Recount(state, now, skill, action) ==
    LET today_str == isoformat(now)
        parsed == IF state.last_done.kind # "none"
                  THEN fromisoformat(state.last_done) ELSE Raised("None")
        continues == parsed.raised = "" /\ parsed.value = now - 1
        history == <<[date |-> today_str, skill |-> skill, action |-> action]>>
                       \o state.history
    IN  [streak |-> IF continues THEN state.streak + 1 ELSE 1,
         last_done |-> today_str,
         history |-> SubSeq(history, 1, Min(Len(history), HISTORY_LIMIT))]

\* mark_done; now is date.today()
mark_done(state, now, skill, action) ==
    LET today_str == isoformat(now)
        parsed == IF state.last_done.kind # "none"
                  THEN fromisoformat(state.last_done) ELSE Raised("None")
        continues == parsed.raised = "" /\ parsed.value = now - 1
        history == <<[date |-> today_str, skill |-> skill, action |-> action]>>
                       \o state.history
    IN  IF state.last_done = today_str THEN state
        ELSE [streak |-> IF continues THEN state.streak + 1 ELSE 1,
              last_done |-> today_str,
              history |-> SubSeq(history, 1, Min(Len(history), HISTORY_LIMIT))]

DoneSkills == {"Power BI", "Git"}
LastDones ==
    {[kind |-> "none", day |-> 0], [kind |-> "text", day |-> 0]}
        \cup {isoformat(day) : day \in 0 .. MaxDays}
OldEntry == [date |-> isoformat(0), skill |-> "Git", action |-> "Practise"]

InitProgress ==
    /\ pc = "start"
    /\ today = 1
    /\ \E streak \in 0 .. MaxStreak : \E last_done \in LastDones :
       \E n \in {0, HISTORY_LIMIT - 1, HISTORY_LIMIT} :
           progress = [streak |-> streak, last_done |-> last_done,
                       history |-> [i \in 1 .. n |-> OldEntry]]
    /\ marked = [made |-> FALSE, state |-> ProgressState, today |-> 0,
                 skill |-> "", action |-> ""]
    /\ IdleExceptProgress

\* render_next_move_card: Mark as done today
MarkDone ==
    \E skill \in DoneSkills :
        /\ progress' = mark_done(progress, today, skill, ActionFor(skill).action)
        /\ marked' = [made |-> TRUE, state |-> progress, today |-> today,
                      skill |-> skill, action |-> ActionFor(skill).action]
        /\ UNCHANGED <<pc, today, exceptProgress>>

\* midnight
NextDay ==
    /\ today < MaxDays
    /\ today' = today + 1
    /\ UNCHANGED <<pc, progress, marked, exceptProgress>>

NextProgress == MarkDone \/ NextDay

SpecProgress == InitProgress /\ [][NextProgress]_vars

\* the entry that a call of mark_done records
NewEntry == [date |-> isoformat(marked.today), skill |-> marked.skill,
             action |-> marked.action]

(***************************************************************************)
(* C22: mark_done follows the streak rules: when last_done is today, the   *)
(* state comes back as it was; when last_done is yesterday, the streak     *)
(* grows by one; in every other case (never done, an older or a later day, *)
(* a text that is no date) the streak becomes 1; and on every change       *)
(* last_done becomes today and the new entry is first in the history,      *)
(* ahead of the entries that were there.                                   *)
(***************************************************************************)
C22_StreakRules ==
    marked.made =>
        LET before == marked.state
            was == before.last_done
        IN  IF was = isoformat(marked.today)
            THEN progress = before
            ELSE /\ progress.streak =
                        IF was = isoformat(marked.today - 1)
                        THEN before.streak + 1 ELSE 1
                 /\ progress.last_done = isoformat(marked.today)
                 /\ progress.history # <<>>
                 /\ Head(progress.history) = NewEntry
                 /\ \A i \in 2 .. Len(progress.history) :
                        progress.history[i] = before.history[i - 1]

\* a streak continued from yesterday, and a second call on the same day
C22_Witness ==
    /\ marked.made
    /\ marked.state.last_done = isoformat(marked.today)
    /\ progress.streak = MaxStreak + MaxDays - 1
    /\ Len(progress.history) >= 2
    /\ progress.history[2].date = isoformat(marked.today - 1)

\* the lines of the text as split at line breaks, stripped
StrippedLines == [i \in 1 .. Len(Split(ev_text, LF)) |-> Strip(Split(ev_text, LF)[i])]

\* the ones among them that have at least 4 characters
ScannedLines == {i \in 1 .. Len(StrippedLines) : Len(StrippedLines[i]) >= 4}

(***************************************************************************)
(* C26: skill matching scans only the lines whose stripped length is at    *)
(* least 4: a skill is found only if its pattern matches one of those      *)
(* lines, so a shorter line produces no hit even when it is exactly an     *)
(* alias such as "SQL"; a text made only of shorter lines, and the empty   *)
(* text, give an empty evidence map.                                       *)
(***************************************************************************)
C26_ShortLinesNotScanned ==
    pc = "extracted" =>
        /\ ScannedLines = {} => found = <<>>
        /\ \A k \in 1 .. Len(found) :
               \E i \in ScannedLines :
                   Search(_ALIAS_PATTERNS[TaxonomyIndex(found[k].skill)].pattern,
                          StrippedLines[i])

\* the text is the line "  SQL " twice: each is the alias SQL once stripped,
\* and nothing is found
C26_Witness ==
    /\ pc = "extracted"
    /\ ev_text = <<32, 32, 83, 81, 76, 32, LF, 32, 32, 83, 81, 76, 32>>
    /\ Search(_ALIAS_PATTERNS[1].pattern, StrippedLines[1])
    /\ found = <<>>

\* the first and the last line of the window around the hit, counted from 1:
\* the indices max(0, hit - radius) up to but excluding
\* min(len(lines), hit + radius + 1) of the code's counting from 0
WindowFirst == Max(0, win_hit_index - win_window) + 1
WindowLast == Min(Len(win_lines), win_hit_index + win_window + 1)

\* the words of those lines in order, a "|" between one line and the next,
\* and the text they make with single spaces
WindowWords ==
    Flatten([k \in 1 .. WindowLast - WindowFirst + 1 |->
                (IF k > 1 THEN <<<<PIPE>>>> ELSE <<>>)
                    \o Words(win_lines[WindowFirst + k - 1])])
WindowText == Join(WindowWords, <<SP>>)

(***************************************************************************)
(* C27: for a hit that is a line of the list, _evidence_window builds the  *)
(* snippet from exactly the lines max(0, hit - radius) up to but excluding *)
(* min(len(lines), hit + radius + 1), in order, joined with " | " and with *)
(* every run of whitespace collapsed to one space: the snippet is that     *)
(* text, or its first 260 characters when it is longer; at the first and   *)
(* the last line the neighbour that is missing is left out.                *)
(***************************************************************************)
C27_WindowLines ==
    (pc = "windowed" /\ win_hit_index \in 0 .. Len(win_lines) - 1) =>
        /\ 1 <= WindowFirst /\ WindowLast <= Len(win_lines)
        /\ WindowFirst <= win_hit_index + 1 /\ win_hit_index + 1 <= WindowLast
        /\ IF Len(WindowText) <= 260
           THEN win_snippet = WindowText
           ELSE SubSeq(win_snippet, 1, 260) = SubSeq(WindowText, 1, 260)

\* the hit is the first of three lines: the snippet is "SQL and AI | used
\* SQL", the tab collapsed, no line before it and the third line left out
C27_Witness ==
    /\ pc = "windowed"
    /\ win_lines = << <<83, 81, 76, TAB, 97, 110, 100, SP, 65, 73>>,
                      <<117, 115, 101, 100, SP, 83, 81, 76>>,
                      <<117, 115, 101, 100, SP, 83, 81, 76>> >>
    /\ win_hit_index = 0
    /\ win_window = 1
    /\ win_snippet = <<83, 81, 76, SP, 97, 110, 100, SP, 65, 73, SP, PIPE, SP,
                       117, 115, 101, 100, SP, 83, 81, 76>>

(***************************************************************************)
(* The text of an alias pattern and the search for it                      *)
(* (_compile_alias_pattern of core/scoring.py with re.escape, re.compile   *)
(* and Pattern.search).  The syntax read is the one these texts use: the   *)
(* flag and word-boundary frame, alternatives separated by "|", "\c" for   *)
(* the character c, "." for any character but a newline, "^" for the start *)
(* of the line, parentheses for a group, any other character for itself.   *)
(***************************************************************************)
BACKSLASH == 92
DOT == 46
CARET == 94
BAR == 124
LPAREN == 40
RPAREN == 41

\* the characters re.escape puts a backslash before
SpecialChars ==
    {LPAREN, RPAREN, 91, 93, 123, 125, 63, 42, 43, HYPHEN, BAR, CARET, 36,
     BACKSLASH, DOT, 38, 126, 35, SP, TAB, LF, CR, 11, 12}

\* mutant: the alias goes into the pattern as it is
re_escape_Raw(s) == s

\* re.escape
re_escape(s) ==
    Flatten([i \in 1 .. Len(s) |->
                IF s[i] \in SpecialChars THEN <<BACKSLASH, s[i]>> ELSE <<s[i]>>])

NeverSource == <<97, 94>>          \* a^
PatternPrefix == <<40, 63, 105, 41, 92, 98, 40>>   \* (?i)\b(
PatternSuffix == <<41, 92, 98>>       \* )\b

\* _compile_alias_pattern up to the call of re.compile: the text of the pattern
PatternSource(aliases) ==
    LET stripped == [i \in 1 .. Len(aliases) |-> Strip(aliases[i])]
        cleaned_aliases == SelectSeq(stripped, LAMBDA a : a # <<>>)
        escaped == [i \in 1 .. Len(cleaned_aliases) |-> re_escape(cleaned_aliases[i])]
    IN  IF cleaned_aliases = <<>> THEN NeverSource
        ELSE PatternPrefix \o Join(escaped, <<BAR>>) \o PatternSuffix

Literal(c) == [kind |-> "literal", ch |-> c]

RECURSIVE ParseBody(_, _, _, _, _)
\* the alternatives of a pattern body read from its i-th character on, alt
\* being the alternative under way, alts the finished ones and depth the
\* number of groups open; re.error for a parenthesis without its partner and
\* for a backslash at the end
ParseBody(body, i, alt, alts, depth) ==
    IF i > Len(body)
    THEN IF depth # 0 THEN Raised("re.error") ELSE Returned(Append(alts, alt))
    ELSE IF body[i] = BACKSLASH
    THEN IF i = Len(body) THEN Raised("re.error")
         ELSE ParseBody(body, i + 2, Append(alt, Literal(body[i + 1])), alts, depth)
    ELSE IF body[i] = BAR
    THEN ParseBody(body, i + 1, <<>>, Append(alts, alt), depth)
    ELSE IF body[i] = LPAREN
    THEN ParseBody(body, i + 1, alt, alts, depth + 1)
    ELSE IF body[i] = RPAREN
    THEN IF depth = 0 THEN Raised("re.error")
         ELSE ParseBody(body, i + 1, alt, alts, depth - 1)
    ELSE IF body[i] = DOT
    THEN ParseBody(body, i + 1, Append(alt, [kind |-> "any", ch |-> DOT]), alts, depth)
    ELSE IF body[i] = CARET
    THEN ParseBody(body, i + 1, Append(alt, [kind |-> "start", ch |-> CARET]), alts, depth)
    ELSE ParseBody(body, i + 1, Append(alt, Literal(body[i])), alts, depth)

\* whether s begins with prefix
StartsWith(s, prefix) ==
    Len(s) >= Len(prefix) /\ SubSeq(s, 1, Len(prefix)) = prefix

\* re.compile on the text of a pattern: with the frame (?i)\b( ... )\b the
\* pattern ignores case and asks for a word boundary on both sides of one of
\* the alternatives in it; without it the text is one case-sensitive
\* alternative
re_compile(source) ==
    LET framed == /\ Len(source) >= Len(PatternPrefix) + Len(PatternSuffix)
                  /\ StartsWith(source, PatternPrefix)
                  /\ EndsWith(source, PatternSuffix)
        body == IF framed
                THEN SubSeq(source, Len(PatternPrefix) + 1,
                            Len(source) - Len(PatternSuffix))
                ELSE source
        parsed == ParseBody(body, 1, <<>>, <<>>, 0)
    IN  IF parsed.raised # "" THEN parsed
        ELSE Returned([ignorecase |-> framed, bounded |-> framed,
                       alternatives |-> parsed.value])

RECURSIVE MatchEnd(_, _, _, _, _)
\* where a match of the atoms from the k-th on ends when it starts after the
\* first pos characters of the line; -1 when there is none
MatchEnd(atoms, k, ln, pos, ignorecase) ==
    IF k > Len(atoms) THEN pos
    ELSE IF atoms[k].kind = "start"
    THEN IF pos = 0 THEN MatchEnd(atoms, k + 1, ln, pos, ignorecase) ELSE -1
    ELSE IF pos >= Len(ln) THEN -1
    ELSE IF atoms[k].kind = "any"
    THEN IF ln[pos + 1] # LF THEN MatchEnd(atoms, k + 1, ln, pos + 1, ignorecase) ELSE -1
    ELSE IF \/ ln[pos + 1] = atoms[k].ch
            \/ ignorecase /\ Lower(<<ln[pos + 1]>>) = Lower(<<atoms[k].ch>>)
    THEN MatchEnd(atoms, k + 1, ln, pos + 1, ignorecase)
    ELSE -1

\* mutant: a search that does not ask for the word boundaries
RegexSearch_Unbounded(compiled, ln) ==
    \E k \in 1 .. Len(compiled.alternatives) : \E p \in 0 .. Len(ln) :
        MatchEnd(compiled.alternatives[k], 1, ln, p, compiled.ignorecase) >= 0

\* Pattern.search(ln) is not None
RegexSearch(compiled, ln) ==
    \E k \in 1 .. Len(compiled.alternatives) : \E p \in 0 .. Len(ln) :
        LET end == MatchEnd(compiled.alternatives[k], 1, ln, p, compiled.ignorecase)
        IN  /\ end >= 0
            /\ compiled.bounded => WordBoundary(ln, p) /\ WordBoundary(ln, end)

MaxAliases == 2
PatternAliases ==
    {<<71, 105, 116>>,            \* Git
     <<32, 71, 105, 116, 32>>,          \* Git between spaces
     <<82>>,              \* R
     <<80, 111, 119, 101, 114, 32, 66, 73>>,       \* Power BI
     <<97, 46, 98>>,            \* a.b
     <<67, 35>>,             \* C#
     <<102, 40, 120>>,            \* f(x
     <<>>,
     <<SP, TAB>>}
PatternLines ==
    {<<82, 101, 115, 101, 97, 114, 99, 104, 32, 97, 110, 100, 32, 82>>,     \* Research and R
     <<82, 101, 115, 101, 97, 114, 99, 104>>,           \* Research
     <<71, 73, 84, 44, 32, 103, 105, 116, 108, 97, 98>>,        \* GIT, gitlab
     <<103, 105, 116, 108, 97, 98>>,             \* gitlab
     <<117, 115, 101, 100, 32, 112, 111, 119, 101, 114, 32, 98, 105>>,      \* used power bi
     <<80, 111, 119, 101, 114, 66, 73>>,            \* PowerBI
     <<97, 120, 98, 32, 67, 35, 120, 32, 102, 40, 120, 41>>,       \* axb C#x f(x)
     <<105, 110, 32, 97, 46, 98, 32, 97, 110, 100, 32, 67, 35, 32>>,     \* in a.b and C#, a space at the end
     <<97, 94>>,                 \* a^
     <<>>}

InitPattern ==
    /\ pc = "start"
    /\ pat_aliases \in Lists(PatternAliases, MaxAliases)
    /\ pat_line \in PatternLines
    /\ pat_compiled = Returned(None)
    /\ pat_hit = FALSE
    /\ IdleExceptPattern

\* _compile_alias_pattern(aliases)
CompileAliasPattern ==
    /\ pc = "start"
    /\ pc' = "compiled"
    /\ pat_compiled' = re_compile(PatternSource(pat_aliases))
    /\ UNCHANGED <<pat_aliases, pat_line, pat_hit, exceptPattern>>

\* pattern.search(ln), as in the loop of extract_skills_with_evidence
SearchLine ==
    /\ pc = "compiled"
    /\ pat_compiled.raised = ""
    /\ pc' = "searched"
    /\ pat_hit' = RegexSearch(pat_compiled.value, pat_line)
    /\ UNCHANGED <<pat_aliases, pat_line, pat_compiled, exceptPattern>>

NextPattern == CompileAliasPattern \/ SearchLine

SpecPattern == InitPattern /\ [][NextPattern]_vars

\* the aliases that count: stripped, the blank ones left out
NamedAliases == {Strip(pat_aliases[i]) : i \in 1 .. Len(pat_aliases)} \ {<<>>}

\* the alias stands in the line after its first p characters, ignoring case
OccursAt(alias, ln, p) ==
    /\ p + Len(alias) <= Len(ln)
    /\ Lower(SubSeq(ln, p + 1, p + Len(alias))) = Lower(alias)

\* a word character stands right before or right after that occurrence
TouchesWord(alias, ln, p) ==
    \/ p >= 1 /\ ln[p] \in WordChars
    \/ p + Len(alias) < Len(ln) /\ ln[p + Len(alias) + 1] \in WordChars

\* the alias begins and ends with a word character, as every alias of
\* SKILL_ALIASES does
WordEdged(alias) ==
    alias[1] \in WordChars /\ alias[Len(alias)] \in WordChars

(***************************************************************************)
(* C24: alias patterns are case-insensitive and word-bounded: for aliases  *)
(* that begin and end with a word character, as those of the taxonomy do,  *)
(* a line is a hit iff one of the aliases occurs in it, ignoring case,     *)
(* with no word character immediately before or after the occurrence; so  *)
(* "R" inside "Research" is no hit, and "Power BI" is found as a whole.    *)
(***************************************************************************)
C24_WholeTokenHit ==
    (pc = "searched" /\ \A alias \in NamedAliases : WordEdged(alias)) =>
        (pat_hit <=>
            \E alias \in NamedAliases : \E p \in 0 .. Len(pat_line) :
                OccursAt(alias, pat_line, p) /\ ~TouchesWord(alias, pat_line, p))

\* "R" occurs in "Research and R" inside a word and as a token of its own;
\* the search finds it, and it would not in "Research" alone
C24_Witness ==
    /\ pc = "searched"
    /\ pat_aliases = <<<<82>>, <<80, 111, 119, 101, 114, 32, 66, 73>>>>
    /\ pat_line = <<82, 101, 115, 101, 97, 114, 99, 104, 32, 97, 110, 100, 32, 82>>
    /\ pat_hit
    /\ OccursAt(<<82>>, pat_line, 0)
    /\ TouchesWord(<<82>>, pat_line, 0)

(***************************************************************************)
(* C25: pattern construction cannot fail: for every alias list, the empty  *)
(* one and one of blank strings included, _compile_alias_pattern returns a *)
(* pattern and raises nothing; the characters of an alias stand for        *)
(* themselves in it, whatever they mean in a pattern, so that a line is    *)
(* matched exactly when an alias occurs in it letter by letter (ignoring   *)
(* case) between two word boundaries; and the pattern built from no alias  *)
(* matches no line.                                                        *)
(***************************************************************************)
C25_PatternNeverFails ==
    /\ pc # "start" => pat_compiled.raised = ""
    /\ pc = "searched" =>
           (pat_hit <=>
               \E alias \in NamedAliases : \E p \in 0 .. Len(pat_line) :
                   /\ OccursAt(alias, pat_line, p)
                   /\ WordBoundary(pat_line, p)
                   /\ WordBoundary(pat_line, p + Len(alias)))
    /\ (pc = "searched" /\ NamedAliases = {}) => ~pat_hit

\* "a.b" and "f(x" compile; the line holds "axb", which the dot would match
\* were it not escaped, and the search finds "f(x" and nothing else
C25_Witness ==
    /\ pc = "searched"
    /\ pat_aliases = <<<<97, 46, 98>>, <<102, 40, 120>>>>
    /\ pat_line = <<97, 120, 98, 32, 67, 35, 120, 32, 102, 40, 120, 41>>
    /\ pat_compiled.raised = ""
    /\ pat_hit

(***************************************************************************)
(* Two browser sessions signed in with one email (render_analyze of app.py *)
(* and core/user_store.py).  Every session runs the script in a thread of  *)
(* its own; each statement that reads or writes the users table is one     *)
(* step.  The account is not VIP and the month does not change.  The lines *)
(* between the limit test and the increment are taken as they are written, *)
(* an analysis that is computed and stored, next to the run that ends in   *)
(* the exception of _cached_resume_pipeline.                               *)
(***************************************************************************)
NumSessions == 2
MaxAnalyses == 5
Sessions == 1 .. NumSessions

\* get_or_create_user for an email without a row
NewUser == [period_start |-> 0, free_runs_used |-> 0, ai_runs_used |-> 0, is_pro |-> 0]

InitQuota ==
    /\ pc = "start"
    /\ stored_user = NewUser
    /\ runs = [s \in Sessions |-> [at |-> "idle", u |-> NewUser]]
    /\ completed = 0
    /\ IdleExceptQuota

\* line 587: user = reset_period_if_needed(get_or_create_user(email)), with
\* Run analysis pressed on an uploaded file
LoadUser(s) ==
    /\ runs[s].at = "idle"
    /\ runs' = [runs EXCEPT ![s] = [at |-> "loaded",
                                     u |-> _reset_if_new_period(stored_user, 0)]]
    /\ stored_user' = _reset_if_new_period(stored_user, 0)
    /\ UNCHANGED <<pc, completed, exceptQuota>>

\* lines 627-632: the test of the limit on the User object of this run
CheckLimit(s) ==
    /\ runs[s].at = "loaded"
    /\ runs' = [runs EXCEPT ![s].at = IF FreeLimitReached(FALSE, runs[s].u)
                                      THEN "idle" ELSE "allowed"]
    /\ UNCHANGED <<pc, stored_user, completed, exceptQuota>>

\* lines 634-663 as written: the analysis is computed and stored in the
\* session
StoreAnalysis(s) ==
    /\ runs[s].at = "allowed"
    /\ completed < MaxAnalyses
    /\ completed' = completed + 1
    /\ runs' = [runs EXCEPT ![s].at = "analysed"]
    /\ UNCHANGED <<pc, stored_user, exceptQuota>>

\* line 637 as it runs: _cached_resume_pipeline raises and the script run
\* ends
PipelineRaises(s) ==
    \E filename \in {DotPdf, DotDocx} :
        /\ runs[s].at = "allowed"
        /\ _cached_resume_pipeline(filename, [readable |-> TRUE, parts |-> <<>>]).raised # ""
        /\ runs' = [runs EXCEPT ![s].at = "idle"]
        /\ UNCHANGED <<pc, stored_user, completed, exceptQuota>>

\* lines 665-669: increment_free_run(user) on the User object of this run,
\* which saves the whole row, and the rerun
IncrementFreeRun(s) ==
    /\ runs[s].at = "analysed"
    /\ stored_user' = increment_free_run(runs[s].u, 0)
    /\ runs' = [runs EXCEPT ![s] = [at |-> "idle",
                                     u |-> increment_free_run(runs[s].u, 0)]]
    /\ UNCHANGED <<pc, completed, exceptQuota>>

NextQuota ==
    \E s \in Sessions :
        \/ LoadUser(s)
        \/ CheckLimit(s)
        \/ StoreAnalysis(s)
        \/ PipelineRaises(s)
        \/ IncrementFreeRun(s)

SpecQuota == InitQuota /\ [][NextQuota]_vars

CanonicalSkills ==
    {<<80, 121, 116, 104, 111, 110>>,  \* Python
     <<83, 81, 76>>,  \* SQL
     <<82>>,  \* R
     <<80, 97, 110, 100, 97, 115>>,  \* Pandas
     <<78, 117, 109, 80, 121>>,  \* NumPy
     <<80, 121, 83, 112, 97, 114, 107>>,  \* PySpark
     <<65, 112, 97, 99, 104, 101, 32, 83, 112, 97, 114, 107>>,  \* Apache Spark
     <<68, 97, 116, 97, 32, 65, 110, 97, 108, 121, 115, 105, 115>>,  \* Data Analysis
     <<68, 97, 116, 97, 32, 69, 110, 103, 105, 110, 101, 101, 114, 105,
       110, 103>>,  \* Data Engineering
     <<68, 97, 116, 97, 32, 77, 111, 100, 101, 108, 105, 110, 103>>,  \* Data Modeling
     <<69, 84, 76>>,  \* ETL
     <<83, 116, 97, 116, 105, 115, 116, 105, 99, 115>>,  \* Statistics
     <<83, 116, 97, 116, 105, 115, 116, 105, 99, 97, 108, 32, 77, 111,
       100, 101, 108, 105, 110, 103>>,  \* Statistical Modeling
     <<77, 97, 99, 104, 105, 110, 101, 32, 76, 101, 97, 114, 110, 105,
       110, 103>>,  \* Machine Learning
     <<65, 114, 116, 105, 102, 105, 99, 105, 97, 108, 32, 73, 110, 116,
       101, 108, 108, 105, 103, 101, 110, 99, 101>>,  \* Artificial Intelligence
     <<78, 76, 80>>,  \* NLP
     <<83, 99, 105, 107, 105, 116, 45, 108, 101, 97, 114, 110>>,  \* Scikit-learn
     <<84, 101, 110, 115, 111, 114, 70, 108, 111, 119>>,  \* TensorFlow
     <<80, 121, 84, 111, 114, 99, 104>>,  \* PyTorch
     <<88, 71, 66, 111, 111, 115, 116>>,  \* XGBoost
     <<65, 122, 117, 114, 101>>,  \* Azure
     <<65, 122, 117, 114, 101, 32, 68, 97, 116, 97, 32, 70, 97, 99, 116,
       111, 114, 121>>,  \* Azure Data Factory
     <<68, 97, 116, 97, 98, 114, 105, 99, 107, 115>>,  \* Databricks
     <<67, 111, 115, 109, 111, 115, 32, 68, 66>>,  \* Cosmos DB
     <<68, 97, 116, 97, 32, 76, 97, 107, 101, 115>>,  \* Data Lakes
     <<80, 111, 115, 116, 103, 114, 101, 83, 81, 76>>,  \* PostgreSQL
     <<77, 121, 83, 81, 76>>,  \* MySQL
     <<71, 105, 116>>,  \* Git
     <<71, 105, 116, 72, 117, 98>>,  \* GitHub
     <<68, 111, 99, 107, 101, 114>>,  \* Docker
     <<65, 122, 117, 114, 101, 32, 68, 101, 118, 79, 112, 115>>,  \* Azure DevOps
     <<69, 120, 99, 101, 108>>,  \* Excel
     <<80, 111, 119, 101, 114, 32, 66, 73>>,  \* Power BI
     <<84, 97, 98, 108, 101, 97, 117>>,  \* Tableau
     <<68, 97, 116, 97, 32, 86, 105, 115, 117, 97, 108, 105, 122, 97, 116,
       105, 111, 110>>,  \* Data Visualization
     <<66, 117, 115, 105, 110, 101, 115, 115, 32, 65, 110, 97, 108, 121,
       115, 105, 115>>,  \* Business Analysis
     <<82, 101, 113, 117, 105, 114, 101, 109, 101, 110, 116, 115, 32, 71,
       97, 116, 104, 101, 114, 105, 110, 103>>,  \* Requirements Gathering
     <<83, 116, 97, 107, 101, 104, 111, 108, 100, 101, 114, 32, 77, 97,
       110, 97, 103, 101, 109, 101, 110, 116>>,  \* Stakeholder Management
     <<67, 111, 109, 109, 117, 110, 105, 99, 97, 116, 105, 111, 110>>,  \* Communication
     <<65, 103, 105, 108, 101>>,  \* Agile
     <<85, 115, 101, 114, 32, 83, 116, 111, 114, 105, 101, 115>>,  \* User Stories
     <<85, 65, 84>>,  \* UAT
     <<80, 114, 111, 99, 101, 115, 115, 32, 77, 97, 112, 112, 105, 110,
       103>>,  \* Process Mapping
     <<66, 80, 77, 78>>,  \* BPMN
     <<80, 114, 111, 99, 101, 115, 115, 32, 73, 109, 112, 114, 111, 118,
       101, 109, 101, 110, 116>>,  \* Process Improvement
     <<68, 111, 99, 117, 109, 101, 110, 116, 97, 116, 105, 111, 110>>,  \* Documentation
     <<74, 105, 114, 97>>,  \* Jira
     <<67, 111, 110, 102, 108, 117, 101, 110, 99, 101>>,  \* Confluence
     <<83, 116, 114, 101, 97, 109, 108, 105, 116>>,  \* Streamlit
     <<80, 121, 77, 117, 80, 68, 70>>,  \* PyMuPDF
     <<66, 101, 97, 117, 116, 105, 102, 117, 108, 83, 111, 117, 112>>}  \* BeautifulSoup

\* ROLE_SKILLS: role -> level -> skills
ROLE_SKILLS ==
       <<68, 97, 116, 97, 32, 65, 110, 97, 108, 121, 115, 116>> :>  \* Data Analyst
        [Entry |-> <<  \* Structured Query Language, Excel, Statistics, Data Visualization
            <<83, 116, 114, 117, 99, 116, 117, 114, 101, 100, 32, 81, 117,
              101, 114, 121, 32, 76, 97, 110, 103, 117, 97, 103, 101>>,
            <<69, 120, 99, 101, 108>>,
            <<83, 116, 97, 116, 105, 115, 116, 105, 99, 115>>,
            <<68, 97, 116, 97, 32, 86, 105, 115, 117, 97, 108, 105, 122,
              97, 116, 105, 111, 110>> >>,
         Mid |-> <<  \* Power BI, Tableau, A/B Testing, Stakeholder Management
            <<80, 111, 119, 101, 114, 32, 66, 73>>,
            <<84, 97, 98, 108, 101, 97, 117>>,
            <<65, 47, 66, 32, 84, 101, 115, 116, 105, 110, 103>>,
            <<83, 116, 97, 107, 101, 104, 111, 108, 100, 101, 114, 32, 77,
              97, 110, 97, 103, 101, 109, 101, 110, 116>> >>,
         Senior |-> <<  \* Analytics Strategy, Experimentation Design, Leadership, Roadmapping
            <<65, 110, 97, 108, 121, 116, 105, 99, 115, 32, 83, 116, 114,
              97, 116, 101, 103, 121>>,
            <<69, 120, 112, 101, 114, 105, 109, 101, 110, 116, 97, 116,
              105, 111, 110, 32, 68, 101, 115, 105, 103, 110>>,
            <<76, 101, 97, 100, 101, 114, 115, 104, 105, 112>>,
            <<82, 111, 97, 100, 109, 97, 112, 112, 105, 110, 103>> >>] @@
       <<68, 97, 116, 97, 32, 69, 110, 103, 105, 110, 101, 101, 114>> :>  \* Data Engineer
        [Entry |-> <<  \* Python, Structured Query Language, PostgreSQL, Data Modeling
            <<80, 121, 116, 104, 111, 110>>,
            <<83, 116, 114, 117, 99, 116, 117, 114, 101, 100, 32, 81, 117,
              101, 114, 121, 32, 76, 97, 110, 103, 117, 97, 103, 101>>,
            <<80, 111, 115, 116, 103, 114, 101, 83, 81, 76>>,
            <<68, 97, 116, 97, 32, 77, 111, 100, 101, 108, 105, 110, 103>> >>,
         Mid |-> <<  \* Apache Spark, Databricks, Azure Data Factory, Orchestration
            <<65, 112, 97, 99, 104, 101, 32, 83, 112, 97, 114, 107>>,
            <<68, 97, 116, 97, 98, 114, 105, 99, 107, 115>>,
            <<65, 122, 117, 114, 101, 32, 68, 97, 116, 97, 32, 70, 97, 99,
              116, 111, 114, 121>>,
            <<79, 114, 99, 104, 101, 115, 116, 114, 97, 116, 105, 111, 110>> >>,
         Senior |-> <<  \* Architecture, Cost Optimization, Reliability, Governance
            <<65, 114, 99, 104, 105, 116, 101, 99, 116, 117, 114, 101>>,
            <<67, 111, 115, 116, 32, 79, 112, 116, 105, 109, 105, 122, 97,
              116, 105, 111, 110>>,
            <<82, 101, 108, 105, 97, 98, 105, 108, 105, 116, 121>>,
            <<71, 111, 118, 101, 114, 110, 97, 110, 99, 101>> >>] @@
       <<65, 110, 97, 108, 121, 116, 105, 99, 115, 32, 69, 110, 103, 105, 110, 101, 101, 114>> :>  \* Analytics Engineer
        [Entry |-> <<  \* Structured Query Language, Version Control, Warehouse
            <<83, 116, 114, 117, 99, 116, 117, 114, 101, 100, 32, 81, 117,
              101, 114, 121, 32, 76, 97, 110, 103, 117, 97, 103, 101>>,
            <<86, 101, 114, 115, 105, 111, 110, 32, 67, 111, 110, 116,
              114, 111, 108>>,
            <<87, 97, 114, 101, 104, 111, 117, 115, 101>> >>,
         Mid |-> <<  \* dbt, Data Modeling, Testing, Documentation
            <<100, 98, 116>>,
            <<68, 97, 116, 97, 32, 77, 111, 100, 101, 108, 105, 110, 103>>,
            <<84, 101, 115, 116, 105, 110, 103>>,
            <<68, 111, 99, 117, 109, 101, 110, 116, 97, 116, 105, 111, 110>> >>,
         Senior |-> <<  \* Semantic Layer, Governance, Data Contracts, Team Enablement
            <<83, 101, 109, 97, 110, 116, 105, 99, 32, 76, 97, 121, 101,
              114>>,
            <<71, 111, 118, 101, 114, 110, 97, 110, 99, 101>>,
            <<68, 97, 116, 97, 32, 67, 111, 110, 116, 114, 97, 99, 116,
              115>>,
            <<84, 101, 97, 109, 32, 69, 110, 97, 98, 108, 101, 109, 101,
              110, 116>> >>] @@
       <<66, 117, 115, 105, 110, 101, 115, 115, 32, 65, 110, 97, 108, 121, 115, 116>> :>  \* Business Analyst
        [Entry |-> <<  \* Requirements Gathering, Stakeholder Communication, Excel
            <<82, 101, 113, 117, 105, 114, 101, 109, 101, 110, 116, 115,
              32, 71, 97, 116, 104, 101, 114, 105, 110, 103>>,
            <<83, 116, 97, 107, 101, 104, 111, 108, 100, 101, 114, 32, 67,
              111, 109, 109, 117, 110, 105, 99, 97, 116, 105, 111, 110>>,
            <<69, 120, 99, 101, 108>> >>,
         Mid |-> <<  \* Process Mapping, Data Analysis, Reporting
            <<80, 114, 111, 99, 101, 115, 115, 32, 77, 97, 112, 112, 105,
              110, 103>>,
            <<68, 97, 116, 97, 32, 65, 110, 97, 108, 121, 115, 105, 115>>,
            <<82, 101, 112, 111, 114, 116, 105, 110, 103>> >>,
         Senior |-> <<  \* Change Management, Business Strategy, Leadership
            <<67, 104, 97, 110, 103, 101, 32, 77, 97, 110, 97, 103, 101,
              109, 101, 110, 116>>,
            <<66, 117, 115, 105, 110, 101, 115, 115, 32, 83, 116, 114, 97,
              116, 101, 103, 121>>,
            <<76, 101, 97, 100, 101, 114, 115, 104, 105, 112>> >>] @@
       <<77, 97, 99, 104, 105, 110, 101, 32, 76, 101, 97, 114, 110, 105, 110, 103, 32, 69, 110, 103, 105, 110, 101, 101, 114>> :>  \* Machine Learning Engineer
        [Entry |-> <<  \* Python, Machine Learning, Model Evaluation
            <<80, 121, 116, 104, 111, 110>>,
            <<77, 97, 99, 104, 105, 110, 101, 32, 76, 101, 97, 114, 110,
              105, 110, 103>>,
            <<77, 111, 100, 101, 108, 32, 69, 118, 97, 108, 117, 97, 116,
              105, 111, 110>> >>,
         Mid |-> <<  \* MLOps, Deployment, Monitoring
            <<77, 76, 79, 112, 115>>,
            <<68, 101, 112, 108, 111, 121, 109, 101, 110, 116>>,
            <<77, 111, 110, 105, 116, 111, 114, 105, 110, 103>> >>,
         Senior |-> <<  \* System Design, Scaling, Cost & Latency Optimization
            <<83, 121, 115, 116, 101, 109, 32, 68, 101, 115, 105, 103, 110>>,
            <<83, 99, 97, 108, 105, 110, 103>>,
            <<67, 111, 115, 116, 32, 38, 32, 76, 97, 116, 101, 110, 99,
              121, 32, 79, 112, 116, 105, 109, 105, 122, 97, 116, 105,
              111, 110>> >>]

\* the options of the select boxes Target role and Seniority
TargetRoleOptions ==
    {<<68, 97, 116, 97, 32, 65, 110, 97, 108, 121, 115, 116>>,  \* Data Analyst
     <<66, 117, 115, 105, 110, 101, 115, 115, 32, 65, 110, 97, 108, 121, 115, 116>>,  \* Business Analyst
     <<68, 97, 116, 97, 32, 69, 110, 103, 105, 110, 101, 101, 114>>,  \* Data Engineer
     <<65, 110, 97, 108, 121, 116, 105, 99, 115, 32, 69, 110, 103, 105, 110, 101, 101, 114>>,  \* Analytics Engineer
     <<77, 76, 32, 69, 110, 103, 105, 110, 101, 101, 114>>}  \* ML Engineer
SeniorityOptions ==
    {<<74, 117, 110, 105, 111, 114>>,  \* Junior
     <<77, 105, 100>>,  \* Mid
     <<83, 101, 110, 105, 111, 114>>}  \* Senior
LevelEntry == <<69, 110, 116, 114, 121>>  \* Entry
LevelMid == <<77, 105, 100>>  \* Mid
LevelSenior == <<83, 101, 110, 105, 111, 114>>  \* Senior

RECURSIVE Dedupe(_)
\* list(dict.fromkeys(xs)): the first occurrence of each element, in order
Dedupe(xs) ==
    IF xs = <<>> THEN <<>>
    ELSE LET front == Dedupe(SubSeq(xs, 1, Len(xs) - 1))
             last == xs[Len(xs)]
         IN  IF last \in Range(front) THEN front ELSE Append(front, last)

\* get_role_targets(role, seniority); dict.get(role, {}) and .get(level, [])
get_role_targets(role, level) ==
    LET role_map == IF role \in DOMAIN ROLE_SKILLS THEN ROLE_SKILLS[role]
                    ELSE [Entry |-> <<>>, Mid |-> <<>>, Senior |-> <<>>]
        entry == role_map.Entry
        mid == role_map.Mid
        senior == role_map.Senior
    IN  IF level = LevelEntry THEN entry
        ELSE IF level = LevelMid THEN Dedupe(entry \o mid)
        ELSE IF level = LevelSenior THEN Dedupe(entry \o mid \o senior)
        ELSE entry

\* _parse_role_context in the mode Role Targets:
\* sorted(list(set(get_role_targets(target_role, seniority=seniority))))
_parse_role_context(role, level) == Sorted(Range(get_role_targets(role, level)))

\* the resumes of the model: one with every skill of the taxonomy, one with
\* none, and two with a few
RoleResumes ==
    {Sorted(CanonicalSkills),
     <<>>,
     << <<69, 120, 99, 101, 108>>, <<83, 81, 76>> >>,          \* Excel, SQL
     << <<80, 121, 116, 104, 111, 110>> >>}                    \* Python

InitRoles ==
    /\ pc = "start"
    /\ target_role \in TargetRoleOptions
    /\ seniority \in SeniorityOptions
    /\ role_cv \in RoleResumes
    /\ role_targets = <<>>
    /\ role_context = <<>>
    /\ role_match = _robust_match_from_sets(<<>>, <<>>)
    /\ IdleExceptRoles

\* context_skills = _parse_role_context("Role Targets", target_role, seniority, "")
ParseRoleContext ==
    /\ pc = "start"
    /\ pc' = "context"
    /\ role_targets' = get_role_targets(target_role, seniority)
    /\ role_context' = _parse_role_context(target_role, seniority)
    /\ UNCHANGED <<target_role, seniority, role_cv, role_match, exceptRoles>>

\* robust = _robust_match_from_sets(resume_skills, context_skills)
RobustRoleMatch ==
    /\ pc = "context"
    /\ pc' = "scored"
    /\ role_match' = _robust_match_from_sets(role_cv, role_context)
    /\ UNCHANGED <<target_role, seniority, role_cv, role_targets, role_context,
                   exceptRoles>>

NextRoles == ParseRoleContext \/ RobustRoleMatch

SpecRoles == InitRoles /\ [][NextRoles]_vars

\* xs has no element twice
NoDuplicates(xs) == Cardinality(Range(xs)) = Len(xs)

\* C29: every role and seniority offered by the Analyze page resolves to a
\* usable target list: the list is not empty, every skill of it is a
\* canonical name of SKILL_ALIASES, the lists of the role are cumulative
\* (Entry within Mid within Senior) and without duplicates, and a resume
\* in which every skill of the taxonomy was found scores 100.
C29_UsableTargets ==
    pc # "start" =>
        /\ role_targets # <<>>
        /\ Range(role_targets) \subseteq CanonicalSkills
        /\ NoDuplicates(role_targets)
        /\ Range(get_role_targets(target_role, LevelEntry))
               \subseteq Range(get_role_targets(target_role, LevelMid))
        /\ Range(get_role_targets(target_role, LevelMid))
               \subseteq Range(get_role_targets(target_role, LevelSenior))
        /\ (pc = "scored" /\ Range(role_cv) = CanonicalSkills)
               => role_match.score = 100

(***************************************************************************)
(* The match the Analyze page stores and shows (app.py, render_analyze):   *)
(* match = {**raw_match, **robust}.  The two dicts share one key,          *)
(* missing_skills, and the value of robust is the one kept.                *)
(***************************************************************************)
merge_match(raw, rob) ==
    [match_percentage |-> raw.match_percentage,
     present_skills |-> raw.present_skills,
     job_skill_count |-> raw.job_skill_count,
     matched_count |-> raw.matched_count,
     score |-> rob.score,
     coverage |-> rob.coverage,
     overlap_count |-> rob.overlap_count,
     matched_skills |-> rob.matched_skills,
     missing_skills |-> rob.missing_skills]

\* the normalized keys of a list of labels, as the claims compare labels
KeysOf(labels) == {Squeeze(l) : l \in NonBlankLabels(labels)}

\* compute_match: present and missing are disjoint, together they are the
\* job skill set, and the counts add up
RawPartition ==
    LET present == Range(raw_match.present_skills)
        missing == Range(raw_match.missing_skills)
    IN  /\ present \cap missing = {}
        /\ present \cup missing = Range(context_skills)
        /\ raw_match.matched_count = Cardinality(present)
        /\ raw_match.job_skill_count = Cardinality(Range(context_skills))
        /\ raw_match.matched_count + Len(raw_match.missing_skills)
               = raw_match.job_skill_count

\* _robust_match_from_sets: the same over the normalized target keys
RobustPartition ==
    /\ KeysOf(robust.matched_skills) \cap KeysOf(robust.missing_skills) = {}
    /\ KeysOf(robust.matched_skills) \cup KeysOf(robust.missing_skills)
           = KeysOf(context_skills)
    /\ robust.overlap_count = Cardinality(KeysOf(robust.matched_skills))
    /\ robust.overlap_count + Len(robust.missing_skills)
           = Cardinality(KeysOf(context_skills))

\* no label is blank, and no two labels of the resume and the target differ
\* in case and whitespace only
PlainLabels ==
    LET labels == Range(resume_skills) \cup Range(context_skills)
    IN  /\ \A l \in labels : ~IsBlank(l)
        /\ \A a, b \in labels : SameSkill(a, b) => a = b

\* C30 as stated: matched and missing partition the target in compute_match
\* and, over normalized target keys, in _robust_match_from_sets, so the
\* merged match has matched_count equal to overlap_count.
C30_MergedCountsAgree ==
    /\ pc \in {"matched", "scored"} => RawPartition
    /\ pc = "scored" =>
           /\ RobustPartition
           /\ merge_match(raw_match, robust).matched_count
                  = merge_match(raw_match, robust).overlap_count

\* C30 amended: both partitions hold for every input; matched_count of the
\* merged match counts the target labels the resume has letter for letter
\* and overlap_count the normalized target keys it has, and the two are
\* equal when no label is blank and no two labels differ in case and
\* whitespace only.
C30_Partitions ==
    /\ pc \in {"matched", "scored"} => RawPartition
    /\ pc = "scored" =>
           LET match == merge_match(raw_match, robust)
           IN  /\ RobustPartition
               /\ match.matched_count
                      = Cardinality(Range(resume_skills) \cap Range(context_skills))
               /\ match.overlap_count
                      = Cardinality(KeysOf(resume_skills) \cap KeysOf(context_skills))
               /\ PlainLabels => match.matched_count = match.overlap_count

\* the resume has "SQL", the target "SQL" and "a b": one matched, one
\* missing, in both variants
C30_Witness ==
    /\ pc = "scored"
    /\ resume_skills = << <<83, 81, 76>> >>
    /\ context_skills = << <<83, 81, 76>>, <<97, 32, 98>> >>
    /\ PlainLabels
    /\ merge_match(raw_match, robust).matched_count = 1
    /\ merge_match(raw_match, robust).overlap_count = 1
    /\ merge_match(raw_match, robust).missing_skills = << <<97, 32, 98>> >>
    /\ raw_match.missing_skills = << <<97, 32, 98>> >>

=============================================================================
